---- MODULE Spec2Model ----
(***************************************************************************)
(* Link / reroute topology of litegraph: LLink (src/unnamed/part_001), the *)
(* LinkNetwork it works on (src/src/interfaces.ts) and the Reroute chain   *)
(* helpers it calls.                                                       *)
(*                                                                         *)
(* Optional values.  A TypeScript value that may be undefined or null is a *)
(* tagged record: Undefined, Null, or Val(v).  The reroute's floating      *)
(* marker is Undefined or the object [slotType |-> "input" | "output"].    *)
(***************************************************************************)
EXTENDS Integers, Sequences, FiniteSets, TLC

VARIABLES links, reroutes, floatingLinks, lastFloatingLinkId, last, walk

\* The gradient widgets, the variables of the GradientWidget module they
\* share, the callbacks the module has scheduled, and the items handed to
\* distributeNodes / distributeItems.
VARIABLES widgets, globalColorInput, activeGradientWidget, activeStopIndex, currentOptions, animationFrameId, pendingUpdate, scheduled, items

canvasVars == <<widgets, globalColorInput, activeGradientWidget, activeStopIndex, currentOptions, animationFrameId, pendingUpdate, scheduled, items>>

vars == <<links, reroutes, floatingLinks, lastFloatingLinkId, last, walk, canvasVars>>

---------------------------------------------------------------------------
(* Bounds of the model. *)

MaxReroutes == 3
MaxLinks == 2
MaxNode == 2
MaxSlot == 0

RerouteIds == 1..MaxReroutes
LinkIds == 1..MaxLinks
NodeIds == 1..MaxNode
SlotIndexes == 0..MaxSlot
SlotTypes == {"FLOAT", "INT"}

---------------------------------------------------------------------------
(* undefined, null and defined values *)

Undefined == [tag |-> "undefined"]
Null == [tag |-> "null"]
Val(v) == [tag |-> "value", v |-> v]

IsVal(o) == o.tag = "value"

\* JavaScript truthiness of an optional number: undefined, null and 0 are falsy.
Truthy(o) == IsVal(o) /\ o.v # 0

\* keepReroutes?: "input" | "output"
KeepFlags == {"undefined", "input", "output"}

---------------------------------------------------------------------------
(* LLink *)

\* new LLink(id, type, origin_id, origin_slot, target_id, target_slot, parentId)
NewLLink(id, type, origin_id, origin_slot, target_id, target_slot, parentId) ==
  [id |-> id, type |-> type,
   origin_id |-> origin_id, origin_slot |-> origin_slot,
   target_id |-> target_id, target_slot |-> target_slot,
   parentId |-> parentId]

\* Reading data.parentId: a key that is absent reads as undefined.
ReadParentId(data) ==
  IF "parentId" \in DOMAIN data THEN data.parentId ELSE Undefined

\* A plausible slip: the optional seventh constructor argument is not passed on.
LLinkCreateNoParent(data) ==
  NewLLink(data.id, data.type, data.origin_id, data.origin_slot,
           data.target_id, data.target_slot, Undefined)

\* static create(data: SerialisableLLink): LLink
LLinkCreate(data) ==
  NewLLink(data.id, data.type, data.origin_id, data.origin_slot,
           data.target_id, data.target_slot, ReadParentId(data))

\* A plausible slip: parentId is copied whenever it is defined (0 included).
AsSerialisableDefined(L) ==
  LET copy == [id |-> L.id,
               origin_id |-> L.origin_id, origin_slot |-> L.origin_slot,
               target_id |-> L.target_id, target_slot |-> L.target_slot,
               type |-> L.type]
  IN IF IsVal(L.parentId) THEN copy @@ [parentId |-> L.parentId] ELSE copy

\* asSerialisable(): the parentId key is written only when parentId is truthy.
AsSerialisable(L) ==
  LET copy == [id |-> L.id,
               origin_id |-> L.origin_id, origin_slot |-> L.origin_slot,
               target_id |-> L.target_id, target_slot |-> L.target_slot,
               type |-> L.type]
  IN IF Truthy(L.parentId) THEN copy @@ [parentId |-> L.parentId] ELSE copy

isFloatingOutput(L) == L.origin_id = -1 /\ L.origin_slot = -1
isFloatingInput(L) == L.target_id = -1 /\ L.target_slot = -1
isFloating(L) == isFloatingOutput(L) \/ isFloatingInput(L)

\* serialize(): the legacy array [id, origin_id, origin_slot, target_id,
\* target_slot, type]
Serialize(L) ==
  <<L.id, L.origin_id, L.origin_slot, L.target_id, L.target_slot, L.type>>

\* The argument of configure is an LLink (or a record of its shape) or the
\* legacy array; Array.isArray(o) tells them apart.
AsRecord(data) == [form |-> "record", v |-> data]
AsArray(data) == [form |-> "array", v |-> data]
IsArray(o) == o.form = "array"

\* A plausible slip: the array's origin and target positions are mixed up.
LLinkConfigureEndsSwapped(L, o) ==
  IF IsArray(o)
  THEN [L EXCEPT !.id = o.v[1], !.origin_id = o.v[4], !.origin_slot = o.v[5],
                 !.target_id = o.v[2], !.target_slot = o.v[3], !.type = o.v[6]]
  ELSE [L EXCEPT !.id = o.v.id, !.type = o.v.type,
                 !.origin_id = o.v.origin_id, !.origin_slot = o.v.origin_slot,
                 !.target_id = o.v.target_id, !.target_slot = o.v.target_slot,
                 !.parentId = ReadParentId(o.v)]

\* configure(o): the link after the call.  The array branch assigns six
\* fields and leaves parentId alone; the record branch assigns all seven.
LLinkConfigure(L, o) ==
  IF IsArray(o)
  THEN [L EXCEPT !.id = o.v[1], !.origin_id = o.v[2], !.origin_slot = o.v[3],
                 !.target_id = o.v[4], !.target_slot = o.v[5], !.type = o.v[6]]
  ELSE [L EXCEPT !.id = o.v.id, !.type = o.v.type,
                 !.origin_id = o.v.origin_id, !.origin_slot = o.v.origin_slot,
                 !.target_id = o.v.target_id, !.target_slot = o.v.target_slot,
                 !.parentId = ReadParentId(o.v)]

\* A plausible slip: slotType is taken as the side to erase the other way.
LLinkToFloatingSwapped(L, slotType, parentId) ==
  LET exported == [parentId |-> Val(parentId)]
                    @@ [AsSerialisable(L) EXCEPT !.id = -1]
  IN LLinkCreate(IF slotType = "output"
                 THEN [exported EXCEPT !.origin_id = -1, !.origin_slot = -1]
                 ELSE [exported EXCEPT !.target_id = -1, !.target_slot = -1])

\* toFloating(slotType, parentId): a new link made from the serialised copy
\* of this one, with id -1, the given parentId and one end erased.
LLinkToFloating(L, slotType, parentId) ==
  LET exported == [parentId |-> Val(parentId)]
                    @@ [AsSerialisable(L) EXCEPT !.id = -1]
  IN LLinkCreate(IF slotType = "input"
                 THEN [exported EXCEPT !.origin_id = -1, !.origin_slot = -1]
                 ELSE [exported EXCEPT !.target_id = -1, !.target_slot = -1])

---------------------------------------------------------------------------
(* Reroute: the chain helpers LLink calls.  rr is network.reroutes, a      *)
(* function from reroute id to the reroute's fields.                       *)

totalLinks(r) == Cardinality(r.linkIds) + Cardinality(r.floatingLinkIds)

\* A slip that would make the walks loop: the visited set is never consulted.
LoopedNever(id, visited) == FALSE

\* if (visited.has(this)): the walk has been at this reroute before.
Looped(id, visited) == id \in visited

\* Reroute.getReroutes(visited): the chain from the origin side to this
\* reroute, or Null when the parentId links loop.  The result lists ids.
RECURSIVE RerouteGetReroutes(_, _, _)
RerouteGetReroutes(rr, id, visited) ==
  IF ~IsVal(rr[id].parentId) THEN Val(<<id>>)
  ELSE IF Looped(id, visited) THEN Null
  ELSE IF rr[id].parentId.v \notin DOMAIN rr THEN Val(<<id>>)
  ELSE LET up == RerouteGetReroutes(rr, rr[id].parentId.v, visited \cup {id})
       IN IF IsVal(up) THEN Val(Append(up.v, id)) ELSE Null

\* Reroute.findNextReroute(withParentId, visited): the first reroute, walking
\* towards the origin, whose parentId is withParentId; Undefined when the
\* walk ends without one; Null when the walk meets a reroute twice.
RECURSIVE RerouteFindNextReroute(_, _, _, _)
RerouteFindNextReroute(rr, id, withParentId, visited) ==
  IF rr[id].parentId = Val(withParentId) THEN Val(id)
  ELSE IF Looped(id, visited) THEN Null
  ELSE IF ~IsVal(rr[id].parentId) THEN Undefined
  ELSE IF rr[id].parentId.v \notin DOMAIN rr THEN Undefined
  ELSE RerouteFindNextReroute(rr, rr[id].parentId.v, withParentId,
                              visited \cup {id})

---------------------------------------------------------------------------
(* LLink's static chain queries *)

\* A plausible slip: the chain is returned input side first.
RECURSIVE Reverse(_)
Reverse(s) == IF s = <<>> THEN <<>> ELSE Append(Reverse(Tail(s)), Head(s))

LLinkGetReroutesReversed(rr, linkSegment) ==
  IF ~Truthy(linkSegment.parentId) THEN <<>>
  ELSE IF linkSegment.parentId.v \notin DOMAIN rr THEN <<>>
  ELSE LET got == RerouteGetReroutes(rr, linkSegment.parentId.v, {})
       IN IF IsVal(got) THEN Reverse(got.v) ELSE <<>>

\* static getReroutes(network, linkSegment): Reroute[]
LLinkGetReroutes(rr, linkSegment) ==
  IF ~Truthy(linkSegment.parentId) THEN <<>>
  ELSE IF linkSegment.parentId.v \notin DOMAIN rr THEN <<>>
  ELSE LET got == RerouteGetReroutes(rr, linkSegment.parentId.v, {})
       IN IF IsVal(got) THEN got.v ELSE <<>>

\* static getFirstReroute(network, linkSegment): getReroutes(...).at(0)
LLinkGetFirstReroute(rr, linkSegment) ==
  LET chain == LLinkGetReroutes(rr, linkSegment)
  IN IF Len(chain) = 0 THEN Undefined ELSE Val(chain[1])

\* A plausible slip: the loop signal is swallowed (null ?? undefined).
LLinkFindNextRerouteNoNull(rr, linkSegment, rerouteId) ==
  IF ~Truthy(linkSegment.parentId) THEN Undefined
  ELSE IF linkSegment.parentId.v \notin DOMAIN rr THEN Undefined
  ELSE LET got == RerouteFindNextReroute(rr, linkSegment.parentId.v, rerouteId, {})
       IN IF got = Null THEN Undefined ELSE got

\* static findNextReroute(network, linkSegment, rerouteId)
LLinkFindNextReroute(rr, linkSegment, rerouteId) ==
  IF ~Truthy(linkSegment.parentId) THEN Undefined
  ELSE IF linkSegment.parentId.v \notin DOMAIN rr THEN Undefined
  ELSE RerouteFindNextReroute(rr, linkSegment.parentId.v, rerouteId, {})

---------------------------------------------------------------------------
(* LinkNetwork.  A network value net has the fields links, reroutes,       *)
(* floatingLinks (functions from id to entity), lastFloatingLinkId, and    *)
(* added: the arguments of the addFloatingLink calls, in call order.  The  *)
(* field log lists the calls a render link makes on other objects, in call *)
(* order.                                                                  *)

RemoveKey(f, k) == [x \in DOMAIN f \ {k} |-> f[x]]

SeqToSet(s) == {s[i] : i \in 1..Len(s)}

\* LinkNetwork.addFloatingLink(link): a link that is not yet in the network
\* (id -1) gets the next floating link id; the link is stored in
\* floatingLinks and its id is added to every reroute of its chain.
AddFloatingLink(net, link) ==
  LET newId == IF link.id = -1 THEN net.lastFloatingLinkId + 1 ELSE link.id
      stored == [link EXCEPT !.id = newId]
      chain == SeqToSet(LLinkGetReroutes(net.reroutes, stored))
  IN [net EXCEPT
        !.lastFloatingLinkId = IF link.id = -1 THEN newId ELSE @,
        !.floatingLinks = (newId :> stored) @@ @,
        !.reroutes = [r \in DOMAIN @ |->
                        IF r \in chain
                        THEN [@[r] EXCEPT !.floatingLinkIds = @ \cup {newId}]
                        ELSE @[r]],
        !.added = Append(@, link)]

---------------------------------------------------------------------------
(* LLink.disconnect(network, keepReroutes) *)

\* A plausible slip: the 1-to-1 test on the last reroute is left out.
OutputFloatingAnyCount(net, chain, keepReroutes) ==
  /\ keepReroutes = "output"
  /\ Len(chain) > 0

\* const outputFloating = keepReroutes === "output" &&
\*   lastReroute?.linkIds.size === 1 && lastReroute.floatingLinkIds.size === 0
OutputFloating(net, chain, keepReroutes) ==
  /\ keepReroutes = "output"
  /\ Len(chain) > 0
  /\ Cardinality(net.reroutes[chain[Len(chain)]].linkIds) = 1
  /\ Cardinality(net.reroutes[chain[Len(chain)]].floatingLinkIds) = 0

\* A plausible slip: "input" is held to the same 1-to-1 test as "output".
MakesFloatingLinkStrict(net, chain, keepReroutes) ==
  \/ OutputFloating(net, chain, keepReroutes)
  \/ /\ keepReroutes = "input"
     /\ Len(chain) > 0
     /\ Cardinality(net.reroutes[chain[Len(chain)]].linkIds) = 1
     /\ Cardinality(net.reroutes[chain[Len(chain)]].floatingLinkIds) = 0

\* A plausible slip: the tests of keepReroutes are left out, and a floating
\* link is made whenever the link has a reroute.
MakesFloatingLinkAnyFlag(net, chain, keepReroutes) == Len(chain) > 0

\* if (outputFloating || (keepReroutes === "input" && lastReroute))
MakesFloatingLink(net, chain, keepReroutes) ==
  \/ OutputFloating(net, chain, keepReroutes)
  \/ (keepReroutes = "input" /\ Len(chain) > 0)

\* A plausible slip: the two branches erase the wrong ends.
NewFloatingLinkSwapped(L, keepReroutes) ==
  LET newLink == [LLinkCreate(L) EXCEPT !.id = -1]
  IN IF keepReroutes = "input"
     THEN [newLink EXCEPT !.target_id = -1, !.target_slot = -1]
     ELSE [newLink EXCEPT !.origin_id = -1, !.origin_slot = -1]

\* const newLink = LLink.create(this); newLink.id = -1; one end is erased.
NewFloatingLink(L, keepReroutes) ==
  LET newLink == [LLinkCreate(L) EXCEPT !.id = -1]
  IN IF keepReroutes = "input"
     THEN [newLink EXCEPT !.origin_id = -1, !.origin_slot = -1]
     ELSE [newLink EXCEPT !.target_id = -1, !.target_slot = -1]

\* lastReroute.floating = { slotType: "input" } or { slotType: "output" }
FloatingMarker(keepReroutes) ==
  IF keepReroutes = "input" THEN [slotType |-> "input"]
  ELSE [slotType |-> "output"]

\* A plausible slip: empty reroutes are deleted whatever keepReroutes is.
RemovesRerouteAlways(keepReroutes, reroute) ==
  totalLinks(reroute) = 0

\* A plausible slip: every chain reroute is deleted when nothing is kept.
RemovesRerouteNoCount(keepReroutes, reroute) ==
  keepReroutes = "undefined"

\* A plausible slip: the delete of the emptied reroute is left out.
RemovesRerouteNever(keepReroutes, reroute) == FALSE

\* if (!keepReroutes && !reroute.totalLinks)
RemovesReroute(keepReroutes, reroute) ==
  keepReroutes = "undefined" /\ totalLinks(reroute) = 0

\* A plausible slip: only the last reroute of the chain is cleaned up.
RECURSIVE DisconnectLoopLastOnly(_, _, _, _, _)
DisconnectLoopLastOnly(net, chain, i, linkId, keepReroutes) ==
  IF Len(chain) = 0 THEN net
  ELSE LET id == chain[Len(chain)]
           reroute == [net.reroutes[id] EXCEPT !.linkIds = @ \ {linkId}]
       IN IF RemovesReroute(keepReroutes, reroute)
          THEN [net EXCEPT !.reroutes = RemoveKey(@, id)]
          ELSE [net EXCEPT !.reroutes[id] = reroute]

\* One pass of the loop body: reroute.linkIds.delete(this.id), then
\* network.reroutes.delete(reroute.id) when nothing is left and kept.
DisconnectIteration(net, id, linkId, keepReroutes) ==
  LET reroute == [net.reroutes[id] EXCEPT !.linkIds = @ \ {linkId}]
  IN IF RemovesReroute(keepReroutes, reroute)
     THEN [net EXCEPT !.reroutes = RemoveKey(@, id)]
     ELSE [net EXCEPT !.reroutes[id] = reroute]

\* for (const reroute of reroutes) { ... }
RECURSIVE DisconnectLoop(_, _, _, _, _)
DisconnectLoop(net, chain, i, linkId, keepReroutes) ==
  IF i > Len(chain) THEN net
  ELSE DisconnectLoop(DisconnectIteration(net, chain[i], linkId, keepReroutes),
                      chain, i + 1, linkId, keepReroutes)

\* The first half of disconnect: the floating replacement link, if any.
DisconnectFloat(net, chain, L, keepReroutes) ==
  IF MakesFloatingLink(net, chain, keepReroutes)
  THEN AddFloatingLink(
         [net EXCEPT !.reroutes[chain[Len(chain)]].floating =
                       FloatingMarker(keepReroutes)],
         NewFloatingLink(L, keepReroutes))
  ELSE net

\* disconnect(network: LinkNetwork, keepReroutes?: "input" | "output"): void
LLinkDisconnect(net, L, keepReroutes) ==
  LET chain == LLinkGetReroutes(net.reroutes, L)
      floated == DisconnectFloat(net, chain, L, keepReroutes)
      cleaned == DisconnectLoop(floated, chain, 1, L.id, keepReroutes)
  IN [cleaned EXCEPT !.links = RemoveKey(@, L.id)]

---------------------------------------------------------------------------
(* The network as the state of the model *)

Net == [links |-> links, reroutes |-> reroutes,
        floatingLinks |-> floatingLinks,
        lastFloatingLinkId |-> lastFloatingLinkId,
        added |-> <<>>, log |-> <<>>]

\* The k-th reroute towards the origin from reroute r (k = 0: r itself).
RECURSIVE Up(_, _, _)
Up(rr, r, k) ==
  IF k = 0 THEN Val(r)
  ELSE LET below == Up(rr, r, k - 1)
       IN IF IsVal(below) /\ below.v \in DOMAIN rr
          THEN rr[below.v].parentId ELSE Undefined

\* No reroute is its own ancestor.
Acyclic(rr) ==
  \A r \in DOMAIN rr : \A k \in 1..Cardinality(DOMAIN rr) : Up(rr, r, k) # Val(r)

\* The reroutes a segment passes through: its parent reroute and that
\* reroute's ancestors.
OnChain(rr, segment) ==
  IF ~IsVal(segment.parentId) THEN {}
  ELSE {r \in DOMAIN rr :
          \E k \in 0..Cardinality(DOMAIN rr) : Up(rr, segment.parentId.v, k) = Val(r)}

NewReroute(parentId, linkIds) ==
  [parentId |-> parentId, linkIds |-> linkIds, floatingLinkIds |-> {},
   floating |-> Undefined]

ParentChoices(ids) == {Undefined} \cup {Val(r) : r \in ids}

\* The link with the given id as the graph under study connects it: the
\* links differ in type and in the nodes and slots at their ends, and no
\* link has the same node at both ends.
LinkOf(id, parentId) ==
  NewLLink(id, IF id % 2 = 1 THEN "FLOAT" ELSE "INT",
           1 + (id % MaxNode), id % (MaxSlot + 1),
           1 + ((id + 1) % MaxNode), (id + 1) % (MaxSlot + 1), parentId)

\* The GradientWidget module as loaded (GradientWidget.ts:9-18), no widget
\* constructed, nothing scheduled, no items to distribute.
InitCanvas ==
  /\ widgets = << >>
  /\ globalColorInput = Null
  /\ activeGradientWidget = Null
  /\ activeStopIndex = -1
  /\ currentOptions = Null
  /\ animationFrameId = Null
  /\ pendingUpdate = FALSE
  /\ scheduled = [frame |-> FALSE, hide |-> 0]
  /\ items = << >>

\* A graph as connecting links and inserting reroutes leave it: the reroute
\* chains are acyclic, every parentId names a reroute, every reroute carries
\* a link, and linkIds lists the links that pass through the reroute.
Init ==
  \E rset \in SUBSET RerouteIds, lset \in SUBSET LinkIds :
    \E par \in [rset -> ParentChoices(rset)], lpar \in [lset -> ParentChoices(rset)] :
      LET ls == [l \in lset |-> LinkOf(l, lpar[l])]
          shape == [r \in rset |-> NewReroute(par[r], {})]
          rr == [r \in rset |->
                   NewReroute(par[r], {l \in lset : r \in OnChain(shape, ls[l])})]
      IN /\ Acyclic(shape)
         /\ \A r \in rset : rr[r].linkIds # {}
         /\ links = ls
         /\ reroutes = rr
         /\ floatingLinks = << >>
         /\ lastFloatingLinkId = 0
         /\ last = [op |-> "init", calls |-> 0]
         /\ walk = [pc |-> "idle"]
         /\ InitCanvas

\* A graph as loaded from a serialised record: the reroutes' linkIds are
\* taken as stored, and may list links that do not pass through the reroute
\* or miss links that do.  The reroute chains are acyclic.
InitLoaded ==
  \E rset \in SUBSET RerouteIds, lset \in SUBSET LinkIds :
    \E par \in [rset -> ParentChoices(rset)], lpar \in [lset -> ParentChoices(rset)],
       stored \in [rset -> SUBSET lset] :
      LET rr == [r \in rset |-> NewReroute(par[r], stored[r])]
      IN /\ Acyclic(rr)
         /\ links = [l \in lset |-> LinkOf(l, lpar[l])]
         /\ reroutes = rr
         /\ floatingLinks = << >>
         /\ lastFloatingLinkId = 0
         /\ last = [op |-> "init", calls |-> 0]
         /\ walk = [pc |-> "idle"]
         /\ InitCanvas

SetNet(net) ==
  /\ links' = net.links
  /\ reroutes' = net.reroutes
  /\ floatingLinks' = net.floatingLinks
  /\ lastFloatingLinkId' = net.lastFloatingLinkId

\* L.disconnect(network, keepReroutes) for a link L of network.links
DisconnectWith(flags) ==
  \E l \in DOMAIN links, keepReroutes \in flags :
    LET after == LLinkDisconnect(Net, links[l], keepReroutes)
    IN /\ SetNet(after)
       /\ last' = [op |-> "disconnect", calls |-> last.calls + 1,
                   link |-> links[l],
                   keepReroutes |-> keepReroutes, pre |-> Net,
                   chain |-> LLinkGetReroutes(reroutes, links[l]),
                   added |-> after.added]
       /\ UNCHANGED <<walk, canvasVars>>

Disconnect == DisconnectWith(KeepFlags)

DisconnectNoKeep == DisconnectWith({"undefined"})

\* A network whose reroutes may be corrupt: every parentId names a reroute
\* of the network, but the parentId links may loop, also on one reroute.
InitCorrupt ==
  \E rset \in SUBSET RerouteIds :
    \E par \in [rset -> ParentChoices(rset)] :
      /\ links = << >>
      /\ reroutes = [r \in rset |-> NewReroute(par[r], {})]
      /\ floatingLinks = << >>
      /\ lastFloatingLinkId = 0
      /\ last = [op |-> "init", calls |-> 0]
      /\ walk = [pc |-> "idle"]
      /\ InitCanvas

\* The segments the lookups are asked about: a link or a reroute, of which
\* only parentId is read.  The parentId may be absent, 0, or name no reroute.
Segments ==
  {[id |-> 1, parentId |-> p] :
     p \in {Undefined} \cup {Val(r) : r \in 0..MaxReroutes}}

NetUnchanged ==
  UNCHANGED <<links, reroutes, floatingLinks, lastFloatingLinkId, walk, canvasVars>>

\* LLink.getReroutes(network, linkSegment)
GetReroutes ==
  \E segment \in Segments :
    /\ last' = [op |-> "getReroutes", calls |-> last.calls, segment |-> segment,
                result |-> LLinkGetReroutes(reroutes, segment)]
    /\ NetUnchanged

\* LLink.getFirstReroute(network, linkSegment)
GetFirstReroute ==
  \E segment \in Segments :
    /\ last' = [op |-> "getFirstReroute", calls |-> last.calls,
                segment |-> segment,
                result |-> LLinkGetFirstReroute(reroutes, segment)]
    /\ NetUnchanged

\* LLink.findNextReroute(network, linkSegment, rerouteId)
FindNextReroute ==
  \E segment \in Segments, rerouteId \in 0..MaxReroutes :
    /\ last' = [op |-> "findNextReroute", calls |-> last.calls,
                segment |-> segment, rerouteId |-> rerouteId,
                result |-> LLinkFindNextReroute(reroutes, segment, rerouteId)]
    /\ NetUnchanged

NextLookup == GetReroutes \/ GetFirstReroute \/ FindNextReroute

SpecLookup == InitCorrupt /\ [][NextLookup]_vars

Next == Disconnect

Spec == Init /\ [][Next]_vars

SpecLoaded == InitLoaded /\ [][Next]_vars

SpecNoKeep == Init /\ [][DisconnectNoKeep]_vars

---------------------------------------------------------------------------
(* What the last disconnect call saw and did *)

Disconnected == last.op = "disconnect"

ChainSet == SeqToSet(last.chain)

HasLastReroute == Len(last.chain) > 0

LastReroute == last.chain[Len(last.chain)]

MarkersUnchanged ==
  \A r \in DOMAIN reroutes : reroutes[r].floating = last.pre.reroutes[r].floating

---------------------------------------------------------------------------
\* C1: after L.disconnect(network) without keepReroutes, L.id is not a key of
\* network.links and is in no chain reroute's linkIds; every reroute of L's
\* chain left with totalLinks 0 is gone from network.reroutes, and every
\* chain reroute that still carries another link or a floating link is
\* still there, with only L.id taken out of its linkIds; reroutes off the
\* chain are left as they were.
C1_DisconnectCleanup ==
  (Disconnected /\ last.keepReroutes = "undefined") =>
    /\ last.link.id \notin DOMAIN links
    /\ \A r \in ChainSet \cap DOMAIN reroutes :
         last.link.id \notin reroutes[r].linkIds
    /\ \A r \in ChainSet :
         LET before == last.pre.reroutes[r]
             others == before.linkIds \ {last.link.id}
         IN /\ (others = {} /\ before.floatingLinkIds = {})
                 => r \notin DOMAIN reroutes
            /\ (others # {} \/ before.floatingLinkIds # {})
                 => /\ r \in DOMAIN reroutes
                    /\ reroutes[r].linkIds = others
    /\ \A r \in DOMAIN last.pre.reroutes \ ChainSet :
         r \in DOMAIN reroutes /\ reroutes[r] = last.pre.reroutes[r]

\* C1 witness: a disconnect without keepReroutes whose chain has a reroute
\* that was removed and a reroute that survived.
C1_Witness ==
  /\ Disconnected /\ last.keepReroutes = "undefined"
  /\ \E r \in ChainSet : r \notin DOMAIN reroutes
  /\ \E r \in ChainSet : r \in DOMAIN reroutes

\* The link that disconnect hands to addFloatingLink when it keeps the
\* output side: L with id -1 and the target erased.
OutputFloatingCopy ==
  [last.link EXCEPT !.id = -1, !.target_id = -1, !.target_slot = -1]

\* The link that disconnect hands to addFloatingLink when it keeps the input
\* side: L with id -1 and the origin erased.
InputFloatingCopy ==
  [last.link EXCEPT !.id = -1, !.origin_id = -1, !.origin_slot = -1]

\* C2: when the last reroute R of L's chain has linkIds = {L.id} and no
\* floating links, L.disconnect(network, "output") keeps R, sets R.floating
\* to {slotType: "output"}, hands addFloatingLink exactly one link (id -1,
\* L's type, origin and parentId, target erased) and removes L from links.
C2_KeepOutput ==
  (/\ Disconnected /\ last.keepReroutes = "output" /\ HasLastReroute
   /\ last.pre.reroutes[LastReroute].linkIds = {last.link.id}
   /\ last.pre.reroutes[LastReroute].floatingLinkIds = {}) =>
    /\ LastReroute = last.link.parentId.v
    /\ LastReroute \in DOMAIN reroutes
    /\ reroutes[LastReroute].floating = [slotType |-> "output"]
    /\ last.added = <<OutputFloatingCopy>>
    /\ last.link.id \notin DOMAIN links

\* C2 witness: such a disconnect happened, on a chain of two reroutes or more.
C2_Witness ==
  /\ Disconnected /\ last.keepReroutes = "output" /\ Len(last.chain) >= 2
  /\ last.pre.reroutes[LastReroute].linkIds = {last.link.id}
  /\ last.pre.reroutes[LastReroute].floatingLinkIds = {}
  /\ last.link.origin_id # last.link.target_id
  /\ last.added # <<>>

\* C3: when L has a chain reroute, L.disconnect(network, "input") hands
\* addFloatingLink exactly one link (id -1, L's type, target and parentId,
\* origin erased) and sets the last chain reroute's floating to
\* {slotType: "input"}, however many links and floating links it carries.
C3_KeepInput ==
  (Disconnected /\ last.keepReroutes = "input" /\ HasLastReroute) =>
    /\ last.added = <<InputFloatingCopy>>
    /\ LastReroute = last.link.parentId.v
    /\ LastReroute \in DOMAIN reroutes
    /\ reroutes[LastReroute].floating = [slotType |-> "input"]

\* C3 witness: such a disconnect on a last reroute that carried a floating
\* link besides L.
C3_Witness ==
  /\ Disconnected /\ last.keepReroutes = "input" /\ HasLastReroute
  /\ totalLinks(last.pre.reroutes[LastReroute]) >= 2
  /\ last.pre.reroutes[LastReroute].floatingLinkIds # {}
  /\ last.added # <<>>

\* C4: disconnect registers no floating link and changes no floating marker
\* when keepReroutes is undefined, when L has no chain reroute, and when
\* keepReroutes is "output" and the last chain reroute has a number of links
\* other than 1 or has a floating link.
C4_NoFloatingLink ==
  (/\ Disconnected
   /\ \/ last.keepReroutes = "undefined"
      \/ ~HasLastReroute
      \/ /\ last.keepReroutes = "output"
         /\ \/ Cardinality(last.pre.reroutes[LastReroute].linkIds) # 1
            \/ last.pre.reroutes[LastReroute].floatingLinkIds # {}) =>
    /\ last.added = <<>>
    /\ floatingLinks = last.pre.floatingLinks
    /\ lastFloatingLinkId = last.pre.lastFloatingLinkId
    /\ MarkersUnchanged

\* C4 witness: keepReroutes "output" on a last reroute that carries two links.
C4_Witness ==
  /\ Disconnected /\ last.keepReroutes = "output" /\ HasLastReroute
  /\ Cardinality(last.pre.reroutes[LastReroute].linkIds) = 2
  /\ last.link.id \in last.pre.reroutes[LastReroute].linkIds
  /\ last.added = <<>>

\* C5: disconnect with keepReroutes "input" or "output" removes no reroute,
\* also not a chain reroute left with totalLinks 0; whenever a reroute is
\* removed, keepReroutes was undefined.
C5_KeepRemovesNothing ==
  Disconnected =>
    /\ last.keepReroutes \in {"input", "output"}
         => DOMAIN reroutes = DOMAIN last.pre.reroutes
    /\ DOMAIN reroutes # DOMAIN last.pre.reroutes
         => last.keepReroutes = "undefined"

\* C5 witness: a disconnect with a keep flag that left a chain reroute with
\* totalLinks 0 in network.reroutes.
C5_Witness ==
  /\ Disconnected /\ last.keepReroutes \in {"input", "output"}
  /\ \E r \in ChainSet : r \in DOMAIN reroutes /\ totalLinks(reroutes[r]) = 0

\* C6: from a network without floating links in which every reroute is on
\* the chain of a link and linkIds is exact, once every link has been
\* disconnected without a keep flag, in whatever order, network.links and
\* network.reroutes are both empty.
C6_AllDisconnected ==
  DOMAIN links = {} => DOMAIN reroutes = {}

\* C6 witness: the second disconnect removed the last link, and the last two
\* reroutes or more with it.
C6_Witness ==
  /\ Disconnected /\ DOMAIN links = {} /\ DOMAIN reroutes = {}
  /\ Cardinality(DOMAIN last.pre.reroutes) >= 2
  /\ last.calls >= 2

---------------------------------------------------------------------------
(* What the last lookup was asked and answered *)

\* The reroutes the walk from the segment can reach.
Walked == OnChain(reroutes, last.segment)

\* The walk from the segment meets no reroute twice.
ChainIsAcyclic ==
  \A r \in Walked : \A k \in 1..Cardinality(DOMAIN reroutes) :
    Up(reroutes, r, k) # Val(r)

NamesReroute(segment) ==
  IsVal(segment.parentId) /\ segment.parentId.v \in DOMAIN reroutes

\* s lists the chain from the reroute without parentId to the one the
\* segment names, each element the parent of the next.
IsChainOf(s, segment) ==
  /\ Len(s) >= 1
  /\ \A i \in 1..Len(s) : s[i] \in DOMAIN reroutes
  /\ reroutes[s[1]].parentId = Undefined
  /\ \A i \in 1..(Len(s) - 1) : reroutes[s[i + 1]].parentId = Val(s[i])
  /\ s[Len(s)] = segment.parentId.v

\* C7: for an acyclic chain LLink.getReroutes returns the reroutes from the
\* one without parentId to the one segment.parentId names, each the parent
\* of the next; it returns the empty array when segment has no parentId or
\* names no reroute; getFirstReroute returns the first element of that
\* array (the reroute of the chain without parentId), or undefined.
C7_GetReroutesOrder ==
  /\ (last.op = "getReroutes" /\ ChainIsAcyclic) =>
       IF NamesReroute(last.segment)
       THEN IsChainOf(last.result, last.segment)
       ELSE last.result = <<>>
  /\ (last.op = "getFirstReroute" /\ ChainIsAcyclic) =>
       IF NamesReroute(last.segment)
       THEN /\ IsVal(last.result)
            /\ last.result.v \in Walked
            /\ reroutes[last.result.v].parentId = Undefined
       ELSE last.result = Undefined

\* C7 witness: getReroutes answered with a chain of three reroutes.
C7_Witness ==
  /\ last.op = "getReroutes" /\ ChainIsAcyclic
  /\ Len(last.result) = 3

\* The reroutes of the walk whose parentId is the id searched for.
Matches == {r \in Walked : reroutes[r].parentId = Val(last.rerouteId)}

---------------------------------------------------------------------------
(* The chain walks, call by call.  walk.pc is "idle" before a call of      *)
(* LLink.getReroutes, LLink.findNextReroute or LLink.disconnect, names the *)
(* place the call has reached while it runs, and is "done" when it has     *)
(* returned.  Every recursive call of the Reroute helpers, every pass of   *)
(* the loop of disconnect and every other part of it is one step;          *)
(* walk.steps counts them and walk.size is the number of reroutes the      *)
(* network had when the call began.                                        *)

\* A network whose reroute chains may loop, with no link or with one link
\* routed through it.
InitWalk ==
  \E rset \in SUBSET RerouteIds, lset \in SUBSET {1} :
    \E par \in [rset -> ParentChoices(rset)], lpar \in [lset -> ParentChoices(rset)] :
      LET ls == [l \in lset |-> LinkOf(l, lpar[l])]
          shape == [r \in rset |-> NewReroute(par[r], {})]
      IN /\ links = ls
         /\ reroutes = [r \in rset |->
               NewReroute(par[r], {l \in lset : r \in OnChain(shape, ls[l])})]
         /\ floatingLinks = << >>
         /\ lastFloatingLinkId = 0
         /\ last = [op |-> "init", calls |-> 0]
         /\ walk = [pc |-> "idle"]
         /\ InitCanvas

\* The static method looks at the segment before any reroute is asked.
EntersChain(segment) ==
  Truthy(segment.parentId) /\ segment.parentId.v \in DOMAIN reroutes

Begin(op, segment, extra) ==
  [op |-> op, segment |-> segment, steps |-> 0,
   size |-> Cardinality(DOMAIN reroutes),
   cur |-> IF EntersChain(segment) THEN segment.parentId.v ELSE 0,
   visited |-> {}, stack |-> <<>>] @@ extra

\* LLink.getReroutes(network, segment) is called.
StartGetReroutes ==
  /\ walk.pc = "idle"
  /\ \E segment \in Segments :
       walk' = IF EntersChain(segment)
               THEN [pc |-> "chain"] @@ Begin("getReroutes", segment, << >>)
               ELSE [pc |-> "done", result |-> <<>>]
                      @@ Begin("getReroutes", segment, << >>)
  /\ UNCHANGED <<links, reroutes, floatingLinks, lastFloatingLinkId, last, canvasVars>>

\* LLink.findNextReroute(network, segment, rerouteId) is called.
StartFindNextReroute ==
  /\ walk.pc = "idle"
  /\ \E segment \in Segments, rerouteId \in 0..MaxReroutes :
       walk' = IF EntersChain(segment)
               THEN [pc |-> "find", rerouteId |-> rerouteId]
                      @@ Begin("findNextReroute", segment, << >>)
               ELSE [pc |-> "done", rerouteId |-> rerouteId, result |-> Undefined]
                      @@ Begin("findNextReroute", segment, << >>)
  /\ UNCHANGED <<links, reroutes, floatingLinks, lastFloatingLinkId, last, canvasVars>>

\* L.disconnect(network, keepReroutes) is called; it starts with getReroutes.
StartDisconnect ==
  /\ walk.pc = "idle"
  /\ \E l \in DOMAIN links, keepReroutes \in KeepFlags :
       LET extra == [link |-> links[l], keepReroutes |-> keepReroutes, i |-> 1,
                     before |-> Net]
       IN walk' = IF EntersChain(links[l])
                  THEN [pc |-> "chain"] @@ Begin("disconnect", links[l], extra)
                  ELSE [pc |-> "float", result |-> <<>>]
                         @@ Begin("disconnect", links[l], extra)
  /\ UNCHANGED <<links, reroutes, floatingLinks, lastFloatingLinkId, last, canvasVars>>

\* The chain as the returning calls push it: this reroute first, then the
\* callers, innermost first.
Unwound(cur, stack) == <<cur>> \o Reverse(stack)

\* getReroutes returned: a lookup is done, disconnect goes on.
Returned(result) ==
  [walk EXCEPT !.pc = IF walk.op = "disconnect" THEN "float" ELSE "done",
               !.steps = @ + 1] @@ [result |-> result]

\* One call of Reroute.getReroutes(visited), on the reroute walk.cur.
StepGetReroutes ==
  /\ walk.pc = "chain"
  /\ LET this == reroutes[walk.cur]
     IN walk' =
          IF ~IsVal(this.parentId) THEN Returned(Unwound(walk.cur, walk.stack))
          ELSE IF Looped(walk.cur, walk.visited) THEN Returned(<<>>)
          ELSE IF this.parentId.v \notin DOMAIN reroutes
               THEN Returned(Unwound(walk.cur, walk.stack))
          ELSE [walk EXCEPT !.visited = @ \cup {walk.cur},
                            !.stack = Append(@, walk.cur),
                            !.cur = this.parentId.v,
                            !.steps = @ + 1]
  /\ UNCHANGED <<links, reroutes, floatingLinks, lastFloatingLinkId, last, canvasVars>>

Found(result) ==
  [walk EXCEPT !.pc = "done", !.steps = @ + 1] @@ [result |-> result]

\* One call of Reroute.findNextReroute(withParentId, visited), on walk.cur.
StepFindNextReroute ==
  /\ walk.pc = "find"
  /\ LET this == reroutes[walk.cur]
     IN walk' =
          IF this.parentId = Val(walk.rerouteId) THEN Found(Val(walk.cur))
          ELSE IF Looped(walk.cur, walk.visited) THEN Found(Null)
          ELSE IF ~IsVal(this.parentId) THEN Found(Undefined)
          ELSE IF this.parentId.v \notin DOMAIN reroutes THEN Found(Undefined)
          ELSE [walk EXCEPT !.visited = @ \cup {walk.cur},
                            !.cur = this.parentId.v,
                            !.steps = @ + 1]
  /\ UNCHANGED <<links, reroutes, floatingLinks, lastFloatingLinkId, last, canvasVars>>

\* disconnect, lines 251 to 276: the floating replacement link.
StepFloat ==
  /\ walk.pc = "float"
  /\ SetNet(DisconnectFloat(Net, walk.result, walk.link, walk.keepReroutes))
  /\ walk' = [walk EXCEPT !.pc = "loop", !.steps = @ + 1]
  /\ UNCHANGED <<last, canvasVars>>

\* disconnect, lines 278 to 283: one pass of the loop, or its end, after
\* which the link is deleted from network.links.
StepLoop ==
  /\ walk.pc = "loop"
  /\ IF walk.i <= Len(walk.result)
     THEN /\ SetNet(DisconnectIteration(Net, walk.result[walk.i], walk.link.id,
                                        walk.keepReroutes))
          /\ walk' = [walk EXCEPT !.i = @ + 1, !.steps = @ + 1]
     ELSE /\ SetNet([Net EXCEPT !.links = RemoveKey(@, walk.link.id)])
          /\ walk' = [walk EXCEPT !.pc = "done", !.steps = @ + 1]
  /\ UNCHANGED <<last, canvasVars>>

StepWalk == StepGetReroutes \/ StepFindNextReroute \/ StepFloat \/ StepLoop

NextWalk ==
  \/ StartGetReroutes
  \/ StartFindNextReroute
  \/ StartDisconnect
  \/ StepWalk

SpecWalk == InitWalk /\ [][NextWalk]_vars

Running == walk.pc \notin {"idle", "done"}

\* The walks, call by call, return what the recursive definitions give.
WalkAgrees ==
  walk.pc = "done" =>
    /\ walk.op = "getReroutes" =>
         walk.result = LLinkGetReroutes(reroutes, walk.segment)
    /\ walk.op = "findNextReroute" =>
         walk.result = LLinkFindNextReroute(reroutes, walk.segment, walk.rerouteId)
    /\ walk.op = "disconnect" =>
         LET was == [links |-> walk.before.links, reroutes |-> walk.before.reroutes,
                     floatingLinks |-> walk.before.floatingLinks,
                     lastFloatingLinkId |-> walk.before.lastFloatingLinkId,
                     added |-> <<>>]
             now == LLinkDisconnect(was, walk.link, walk.keepReroutes)
         IN /\ links = now.links
            /\ reroutes = now.reroutes
            /\ floatingLinks = now.floatingLinks
            /\ lastFloatingLinkId = now.lastFloatingLinkId

\* C9: on a network whose parentId links loop, LLink.getReroutes,
\* LLink.findNextReroute and LLink.disconnect complete after finitely many
\* steps: a running call can always take its next step, a chain walk makes
\* at most one call per reroute and one more, and disconnect adds at most
\* one loop pass per reroute and two further steps.
C9_WalksTerminate ==
  /\ Running => ENABLED StepWalk
  /\ walk.pc # "idle" =>
       /\ walk.pc \in {"chain", "find"} => walk.steps <= walk.size
       /\ walk.op \in {"getReroutes", "findNextReroute"} =>
            walk.steps <= walk.size + 1
       /\ walk.op = "disconnect" => walk.steps <= 2 * walk.size + 3

\* C9 witness: a call has returned after its walk went round a loop of two
\* reroutes or more and came back to the reroute it started from.
C9_Witness ==
  /\ walk.pc = "done" /\ walk.op \in {"getReroutes", "findNextReroute"}
  /\ Cardinality(walk.visited) >= 2
  /\ walk.cur \in walk.visited
  /\ reroutes[walk.cur].parentId # Undefined

---------------------------------------------------------------------------
(* A single link, outside any network: serialisation.  last.link is the    *)
(* link the methods are called on.                                         *)

\* Every link value within the bounds: ids and slots may be -1, parentId may
\* be absent, 0 or a reroute id.
LinkValues ==
  {NewLLink(id, t, oi, os, ti, ts, p) :
     id \in {-1} \cup LinkIds, t \in SlotTypes,
     oi \in {-1} \cup NodeIds, os \in {-1} \cup SlotIndexes,
     ti \in {-1} \cup NodeIds, ts \in {-1} \cup SlotIndexes,
     p \in {Undefined} \cup {Val(r) : r \in 0..MaxReroutes}}

InitLink ==
  /\ links = << >>
  /\ reroutes = << >>
  /\ floatingLinks = << >>
  /\ lastFloatingLinkId = 0
  /\ walk = [pc |-> "idle"]
  /\ InitCanvas
  /\ \E L \in LinkValues : last = [op |-> "link", calls |-> 0, link |-> L]

\* LLink.create(L.asSerialisable())
RoundTrip ==
  /\ last' = [op |-> "roundTrip", calls |-> last.calls, link |-> last.link,
              serialised |-> AsSerialisable(last.link),
              result |-> LLinkCreate(AsSerialisable(last.link))]
  /\ NetUnchanged

\* L.toFloating(slotType, parentId); L is read, never assigned to.
ToFloating ==
  /\ \E slotType \in {"input", "output"}, parentId \in 0..MaxReroutes :
       last' = [op |-> "toFloating", calls |-> last.calls, before |-> last.link,
                link |-> last.link, slotType |-> slotType, parentId |-> parentId,
                result |-> LLinkToFloating(last.link, slotType, parentId)]
  /\ NetUnchanged

\* What configure is called with: links of the graph under study, as LLink
\* objects and as serialised records, with every kind of parentId.
RecordSources ==
  UNION {{AsRecord(LinkOf(l, p)), AsRecord(AsSerialisable(LinkOf(l, p)))} :
           l \in LinkIds, p \in {Undefined} \cup {Val(r) : r \in 0..MaxReroutes}}

\* The legacy arrays configure is called with.
ArraySources == {AsArray(Serialize(LinkOf(l, Undefined))) : l \in LinkIds}

ConfigureWith(o) ==
  /\ last' = [op |-> "configure", calls |-> last.calls, before |-> last.link,
              o |-> o, link |-> LLinkConfigure(last.link, o)]
  /\ NetUnchanged

\* L.configure(o) with an LLink or a record
ConfigureRecord == \E o \in RecordSources : ConfigureWith(o)

\* L.configure(o) with the legacy array
ConfigureArray == \E o \in ArraySources : ConfigureWith(o)

\* L.asSerialisable()
Serialise ==
  /\ last' = [op |-> "asSerialisable", calls |-> last.calls, link |-> last.link,
              result |-> AsSerialisable(last.link)]
  /\ NetUnchanged

NextLink ==
  \/ RoundTrip
  \/ ToFloating
  \/ ConfigureRecord
  \/ ConfigureArray
  \/ Serialise

SpecLink == InitLink /\ [][NextLink]_vars

SameEndsAndType(A, B) ==
  /\ A.id = B.id /\ A.type = B.type
  /\ A.origin_id = B.origin_id /\ A.origin_slot = B.origin_slot
  /\ A.target_id = B.target_id /\ A.target_slot = B.target_slot

\* C10 as stated: for every link L, every value of parentId included (absent
\* and 0 too), LLink.create(L.asSerialisable()) has L's id, type, origin_id,
\* origin_slot, target_id, target_slot and parentId.
C10_RoundTripEveryParent ==
  last.op = "roundTrip" =>
    /\ SameEndsAndType(last.result, last.link)
    /\ last.result.parentId = last.link.parentId

\* C10 as amended: the round trip keeps id, type, origin_id, origin_slot,
\* target_id and target_slot of every link, and keeps parentId when it is
\* absent or not 0; a parentId of 0 is not serialised and comes back absent.
C10_RoundTrip ==
  last.op = "roundTrip" =>
    /\ SameEndsAndType(last.result, last.link)
    /\ last.link.parentId # Val(0) => last.result.parentId = last.link.parentId
    /\ last.link.parentId = Val(0) => last.result.parentId = Undefined
    /\ "parentId" \in DOMAIN last.serialised <=> Truthy(last.link.parentId)

\* C10 witness: a link with a reroute as parent went through the round trip.
C10_Witness ==
  /\ last.op = "roundTrip"
  /\ Truthy(last.link.parentId)
  /\ last.result = last.link

---------------------------------------------------------------------------
\* C11: for every link L, floating already or not, and both values of
\* slotType, the link L.toFloating(slotType, parentId) returns has exactly
\* one of isFloatingOutput and isFloatingInput true.
C11_ExactlyOneFloating ==
  last.op = "toFloating" =>
    isFloatingOutput(last.result) # isFloatingInput(last.result)

\* C12: L.toFloating(slotType, parentId) returns a link with id -1, L's type
\* and the given parentId; with "input" its origin is -1/-1 and its target is
\* L's, with "output" its target is -1/-1 and its origin is L's; L and the
\* network are as before the call.
C12_ToFloating ==
  last.op = "toFloating" =>
    /\ last.result.id = -1
    /\ last.result.type = last.before.type
    /\ last.result.parentId = Val(last.parentId)
    /\ last.slotType = "input" =>
         /\ last.result.origin_id = -1 /\ last.result.origin_slot = -1
         /\ last.result.target_id = last.before.target_id
         /\ last.result.target_slot = last.before.target_slot
    /\ last.slotType = "output" =>
         /\ last.result.target_id = -1 /\ last.result.target_slot = -1
         /\ last.result.origin_id = last.before.origin_id
         /\ last.result.origin_slot = last.before.origin_slot
    /\ last.link = last.before
    /\ links = << >> /\ reroutes = << >> /\ floatingLinks = << >>

\* C12 witness: toFloating("input", p) on a link with both ends connected
\* and another parentId than p.
C12_Witness ==
  /\ last.op = "toFloating" /\ last.slotType = "input"
  /\ ~isFloating(last.before)
  /\ Truthy(last.before.parentId) /\ last.before.parentId # Val(last.parentId)
  /\ last.before.origin_id # last.before.target_id
  /\ isFloatingOutput(last.result) /\ ~isFloatingInput(last.result)

\* C13: link.configure([a, b, c, d, e, f]) with the legacy array sets id = a,
\* origin_id = b, origin_slot = c, target_id = d, target_slot = e and
\* type = f, whatever the link held before.
C13_ConfigureArray ==
  (last.op = "configure" /\ IsArray(last.o)) =>
    /\ last.link.id = last.o.v[1]
    /\ last.link.origin_id = last.o.v[2]
    /\ last.link.origin_slot = last.o.v[3]
    /\ last.link.target_id = last.o.v[4]
    /\ last.link.target_slot = last.o.v[5]
    /\ last.link.type = last.o.v[6]

\* C13 witness: configure from an array on a link that differed from the
\* array in each of the six fields.
C13_Witness ==
  /\ last.op = "configure" /\ IsArray(last.o)
  /\ last.before.id # last.o.v[1]
  /\ last.before.origin_id # last.o.v[2]
  /\ last.before.origin_slot # last.o.v[3]
  /\ last.before.target_id # last.o.v[4]
  /\ last.before.target_slot # last.o.v[5]
  /\ last.before.type # last.o.v[6]
  /\ last.link.id = last.o.v[1] /\ last.link.type = last.o.v[6]

\* The parentId the argument of configure carries: the legacy array has no
\* place for one.
CarriedParentId(o) == IF IsArray(o) THEN Undefined ELSE ReadParentId(o.v)

\* C14: configure overwrites wholesale, with a record and with the legacy
\* array alike: afterwards the link holds, in each of id, type, origin_id,
\* origin_slot, target_id, target_slot and parentId, what o carries and
\* nothing it held before; configured from a source without parentId, the
\* link has no parentId.
C14_ConfigureWholesale ==
  last.op = "configure" =>
    /\ last.link.parentId = CarriedParentId(last.o)
    /\ IsArray(last.o) =>
         Serialize(last.link) = last.o.v
    /\ ~IsArray(last.o) =>
         /\ last.link.id = last.o.v.id /\ last.link.type = last.o.v.type
         /\ last.link.origin_id = last.o.v.origin_id
         /\ last.link.origin_slot = last.o.v.origin_slot
         /\ last.link.target_id = last.o.v.target_id
         /\ last.link.target_slot = last.o.v.target_slot

\* C15: asSerialisable() returns a record whose id, origin_id, origin_slot,
\* target_id, target_slot and type are the link's; it has a parentId key,
\* holding the link's parentId, exactly when that parentId is truthy, and
\* no other key.
C15_AsSerialisable ==
  last.op = "asSerialisable" =>
    /\ SameEndsAndType(last.result, last.link)
    /\ DOMAIN last.result \ {"parentId"} =
         {"id", "type", "origin_id", "origin_slot", "target_id", "target_slot"}
    /\ "parentId" \in DOMAIN last.result <=> Truthy(last.link.parentId)
    /\ "parentId" \in DOMAIN last.result =>
         last.result.parentId = last.link.parentId

\* C15 witness: a link with parentId 0 was serialised, and the record has
\* no parentId key.
C15_Witness ==
  /\ last.op = "asSerialisable"
  /\ last.link.parentId = Val(0)
  /\ "parentId" \notin DOMAIN last.result

---------------------------------------------------------------------------
(* The lookups on a network with links, reroutes and nodes.  The nodes the *)
(* network knows are an input of each call: no operation here changes them. *)

\* A call that ended in a thrown Error instead of a return value.
Thrown == [tag |-> "error"]

\* network.getNodeById(id): null for an id that is undefined or unknown.
GetNodeById(nodes, id) ==
  IF IsVal(id) /\ id.v \in nodes THEN Val(id.v) ELSE Null

\* value ?? undefined
OrUndefined(value) == IF IsVal(value) THEN value ELSE Undefined

\* A plausible slip: links.get(linkId).origin_id without the optional chaining.
LLinkGetOriginNodeUnguarded(ls, nodes, linkId) ==
  IF linkId \notin DOMAIN ls THEN Thrown
  ELSE OrUndefined(GetNodeById(nodes, Val(ls[linkId].origin_id)))

\* LLink.getOriginNode(network, linkId)
LLinkGetOriginNode(ls, nodes, linkId) ==
  LET id == IF linkId \in DOMAIN ls THEN Val(ls[linkId].origin_id) ELSE Undefined
  IN OrUndefined(GetNodeById(nodes, id))

\* LLink.getTargetNode(network, linkId)
LLinkGetTargetNode(ls, nodes, linkId) ==
  LET id == IF linkId \in DOMAIN ls THEN Val(ls[linkId].target_id) ELSE Undefined
  IN OrUndefined(GetNodeById(nodes, id))

\* A network with reroutes that may be corrupt and with every link but one,
\* so that one link id is not in network.links.
InitQueries ==
  \E rset \in SUBSET RerouteIds, lset \in {LinkIds \ {l} : l \in LinkIds} :
    \E par \in [rset -> ParentChoices(rset)] :
      /\ links = [l \in lset |-> LinkOf(l, Undefined)]
      /\ reroutes = [r \in rset |-> NewReroute(par[r], {})]
      /\ floatingLinks = << >>
      /\ lastFloatingLinkId = 0
      /\ last = [op |-> "init", calls |-> 0]
      /\ walk = [pc |-> "idle"]
      /\ InitCanvas

\* The node collections the lookups meet: every node known, or one missing.
NodeSets == {NodeIds} \cup {NodeIds \ {n} : n \in NodeIds}

GetOriginNode ==
  \E linkId \in LinkIds, nodes \in NodeSets :
    /\ last' = [op |-> "getOriginNode", calls |-> last.calls, linkId |-> linkId,
                nodes |-> nodes,
                result |-> LLinkGetOriginNode(links, nodes, linkId)]
    /\ NetUnchanged

GetTargetNode ==
  \E linkId \in LinkIds, nodes \in NodeSets :
    /\ last' = [op |-> "getTargetNode", calls |-> last.calls, linkId |-> linkId,
                nodes |-> nodes,
                result |-> LLinkGetTargetNode(links, nodes, linkId)]
    /\ NetUnchanged

NextQueries ==
  \/ GetReroutes
  \/ GetFirstReroute
  \/ FindNextReroute
  \/ GetOriginNode
  \/ GetTargetNode

SpecQueries == InitQueries /\ [][NextQueries]_vars

LookupOps ==
  {"getReroutes", "getFirstReroute", "findNextReroute",
   "getOriginNode", "getTargetNode"}

\* The node a node lookup has to answer with: the end of the link when the
\* link is in network.links and getNodeById knows the node.
KnownEnd(end) ==
  /\ last'.linkId \in DOMAIN links
  /\ links[last'.linkId][end] \in last'.nodes

\* What C16 asks of one call.
LookupStep ==
  last'.op \in LookupOps =>
    /\ UNCHANGED <<links, reroutes, floatingLinks, lastFloatingLinkId>>
    /\ last'.op # "getReroutes" => last'.result # Thrown
    /\ (last'.op = "getReroutes" /\ ~NamesReroute(last'.segment))
         => last'.result = <<>>
    /\ (last'.op \in {"getFirstReroute", "findNextReroute"}
           /\ ~NamesReroute(last'.segment))
         => last'.result = Undefined
    /\ last'.op = "getOriginNode" =>
         last'.result = IF KnownEnd("origin_id")
                        THEN Val(links[last'.linkId].origin_id) ELSE Undefined
    /\ last'.op = "getTargetNode" =>
         last'.result = IF KnownEnd("target_id")
                        THEN Val(links[last'.linkId].target_id) ELSE Undefined

\* C16: the lookups are total and change nothing.  getReroutes,
\* getFirstReroute and findNextReroute on a segment whose parentId is absent
\* or names no reroute, and getOriginNode and getTargetNode on a link id that
\* is not in network.links or a node getNodeById does not know, return the
\* empty array or undefined, never throw, and leave links, reroutes and
\* floatingLinks as they were.
C16_LookupsTotal == [][LookupStep]_vars

\* C16 witness: getTargetNode on a link of the network whose target node
\* getNodeById does not know was answered with undefined.
C16_Witness ==
  /\ last.op = "getTargetNode"
  /\ last.linkId \in DOMAIN links
  /\ links[last.linkId].target_id \notin last.nodes
  /\ last.result = Undefined

---------------------------------------------------------------------------
\* The segment's parentId is absent or names a reroute of network.reroutes.
ParentKnown(segment) ==
  segment.parentId = Undefined
    \/ (IsVal(segment.parentId) /\ segment.parentId.v \in DOMAIN reroutes)

\* C17: from a network in which every parentId names a reroute and linkIds
\* and floatingLinkIds are exact, after any sequence of disconnect calls with
\* keepReroutes undefined, "input" or "output", every link, floating link and
\* reroute that remains has a parentId that is absent or names a reroute of
\* network.reroutes.
C17_ParentsExist ==
  /\ \A l \in DOMAIN links : ParentKnown(links[l])
  /\ \A f \in DOMAIN floatingLinks : ParentKnown(floatingLinks[f])
  /\ \A r \in DOMAIN reroutes : ParentKnown(reroutes[r])

\* C17 witness: a disconnect without keep flag removed a reroute of its
\* chain while a floating link, left by an earlier disconnect, remains on
\* another reroute of that chain.
C17_Witness ==
  /\ Disconnected /\ last.keepReroutes = "undefined"
  /\ \E r \in ChainSet : r \notin DOMAIN reroutes
  /\ \E f \in DOMAIN floatingLinks :
       /\ IsVal(floatingLinks[f].parentId)
       /\ floatingLinks[f].parentId.v \in ChainSet \cap DOMAIN reroutes

---------------------------------------------------------------------------
(* ToInputRenderLink (src/src/canvas/ToInputRenderLink.ts): a link being   *)
(* dragged from an output, to be dropped on an input or on a reroute.  Its *)
(* fields are read-only, so the render link is an input of each call.      *)

\* An output slot object: the node whose outputs array holds it, and where.
OutputSlot(node, index) == [node |-> node, index |-> index]

\* node.outputs.indexOf(fromSlot)
IndexOfOutput(node, fromSlot) ==
  IF fromSlot.node = node THEN fromSlot.index ELSE -1

\* A plausible slip: the check of the slot index is left out.
NewToInputRenderLinkUnchecked(node, fromSlot, fromReroute) ==
  [tag |-> "renderLink", node |-> node, fromSlot |-> fromSlot,
   fromSlotIndex |-> IndexOfOutput(node, fromSlot),
   fromReroute |-> fromReroute]

\* new ToInputRenderLink(network, node, fromSlot, fromReroute): throws when
\* fromSlot is not one of node.outputs.
NewToInputRenderLink(node, fromSlot, fromReroute) ==
  IF IndexOfOutput(node, fromSlot) = -1 THEN Thrown
  ELSE [tag |-> "renderLink", node |-> node, fromSlot |-> fromSlot,
        fromSlotIndex |-> IndexOfOutput(node, fromSlot),
        fromReroute |-> fromReroute]

\* canConnectToOutput(): false
RenderCanConnectToOutput == FALSE

\* A plausible slip: the call returns without an error.
RenderConnectToOutputSilent(net) == [net |-> net, result |-> Undefined]

\* connectToOutput() and connectToRerouteOutput(): the body is the throw.
RenderConnectToOutput(net) == [net |-> net, result |-> Thrown]

Logged(net, entry) == [net EXCEPT !.log = Append(@, entry)]

\* LGraphNode.connectSlots(output, inputNode, input, afterRerouteId): the
\* connect operation.  It makes a link with both ends known, puts it in
\* network.links and enters its id in the linkIds of the reroutes on its
\* chain, which are no longer floating: creating the link overwrites their
\* floating marker.  The new link is returned.
ConnectSlots(net, id, type, origin_id, origin_slot, target_id, target_slot, parentId) ==
  LET newLink == NewLLink(id, type, origin_id, origin_slot,
                          target_id, target_slot, parentId)
      chain == SeqToSet(LLinkGetReroutes(net.reroutes, newLink))
  IN Logged([net EXCEPT
               !.links = (id :> newLink) @@ @,
               !.reroutes = [r \in DOMAIN @ |->
                               IF r \in chain
                               THEN [@[r] EXCEPT !.linkIds = @ \cup {id},
                                                 !.floating = Undefined]
                               ELSE @[r]]],
            [call |-> "connectSlots", afterRerouteId |-> parentId,
             link |-> newLink])

\* Reroute.removeLink(link): the link's id leaves floatingLinkIds when the
\* link is the network's floating link of that id, and linkIds otherwise.
RerouteRemoveLink(net, r, link) ==
  Logged(IF link.id \in DOMAIN net.floatingLinks /\ net.floatingLinks[link.id] = link
         THEN [net EXCEPT !.reroutes[r].floatingLinkIds = @ \ {link.id}]
         ELSE [net EXCEPT !.reroutes[r].linkIds = @ \ {link.id}],
         [call |-> "removeLink", reroute |-> r])

\* Reroute.remove(): the reroute deregisters itself from the network.
RerouteRemove(net, r) ==
  Logged([net EXCEPT !.reroutes = RemoveKey(@, r)],
         [call |-> "remove", reroute |-> r])

\* Reroute.removeAllFloatingLinks(): every floating link of the reroute is
\* deregistered from the network.
RerouteRemoveAllFloatingLinks(net, r) ==
  LET ids == net.reroutes[r].floatingLinkIds
  IN Logged([net EXCEPT
               !.floatingLinks = [f \in DOMAIN @ \ ids |-> @[f]],
               !.reroutes = [x \in DOMAIN @ |->
                               [@[x] EXCEPT !.floatingLinkIds = @ \ ids]]],
            [call |-> "removeAllFloatingLinks", reroute |-> r])

\* events.dispatch("link-created", newLink)
DispatchLinkCreated(net, newLink) ==
  Logged(net, [call |-> "dispatch", event |-> "link-created", link |-> newLink])

\* The type of an output slot of the graph under study.
TypeOfOutput(slot) == IF slot.index % 2 = 0 THEN "FLOAT" ELSE "INT"

\* fromReroute?.id
FromRerouteId(this) == this.fromReroute

\* A plausible slip: the test for the render link's own node is left out.
RenderConnectToInputOwnNode(net, this, node, input, newId) ==
  LET connected == ConnectSlots(net, newId, TypeOfOutput(this.fromSlot),
                                this.node, this.fromSlotIndex, node, input,
                                FromRerouteId(this))
  IN DispatchLinkCreated(connected, connected.links[newId])

\* connectToInput(node, input, events): nothing when the input is on the
\* node the link is dragged from, else connectSlots and the event.
RenderConnectToInput(net, this, node, input, newId) ==
  IF node = this.node THEN net
  ELSE LET connected == ConnectSlots(net, newId, TypeOfOutput(this.fromSlot),
                                     this.node, this.fromSlotIndex, node, input,
                                     FromRerouteId(this))
       IN DispatchLinkCreated(connected, connected.links[newId])

\* A plausible slip: the test of link.isFloating is left out and every
\* emptied reroute is converted to a floating one.
CleanUpRerouteUnguarded(net, r, link) ==
  LET removed == RerouteRemoveLink(net, r, link)
  IN IF totalLinks(removed.reroutes[r]) # 0 THEN removed
     ELSE [AddFloatingLink(removed, LLinkToFloating(link, "output", r))
             EXCEPT !.reroutes[r].floating = [slotType |-> "output"]]

\* One pass of the clean-up loop of connectToRerouteInput, lines 77 to 88.
CleanUpReroute(net, r, link) ==
  LET removed == RerouteRemoveLink(net, r, link)
  IN IF totalLinks(removed.reroutes[r]) # 0 THEN removed
     ELSE IF isFloating(link) THEN RerouteRemove(removed, r)
     ELSE [AddFloatingLink(removed, LLinkToFloating(link, "output", r))
             EXCEPT !.reroutes[r].floating = [slotType |-> "output"]]

\* A plausible slip: the loop has no break and cleans up every reroute of
\* the list.
RECURSIVE CleanUpReroutesNoBreak(_, _, _, _, _)
CleanUpReroutesNoBreak(net, originalReroutes, i, link, fromRerouteId) ==
  IF i > Len(originalReroutes) THEN net
  ELSE CleanUpReroutesNoBreak(CleanUpReroute(net, originalReroutes[i], link),
                              originalReroutes, i + 1, link, fromRerouteId)

\* for (const reroute of originalReroutes) with its break at fromReroute
RECURSIVE CleanUpReroutes(_, _, _, _, _)
CleanUpReroutes(net, originalReroutes, i, link, fromRerouteId) ==
  IF i > Len(originalReroutes) THEN net
  ELSE IF Val(originalReroutes[i]) = fromRerouteId THEN net
  ELSE CleanUpReroutes(CleanUpReroute(net, originalReroutes[i], link),
                       originalReroutes, i + 1, link, fromRerouteId)

\* A plausible slip: the floating marker of fromReroute is read after
\* connectSlots has made the new link.
RenderConnectToRerouteInputLateCheck(net, this, reroute, node, input, link, originalReroutes, newId) ==
  LET fromRerouteId == FromRerouteId(this)
      parented == [net EXCEPT !.reroutes[reroute].parentId = fromRerouteId]
      connected == ConnectSlots(parented, newId, TypeOfOutput(this.fromSlot),
                                this.node, this.fromSlotIndex, node, input,
                                link.parentId)
      floatingTerminus ==
        /\ IsVal(fromRerouteId)
        /\ connected.reroutes[fromRerouteId.v].floating = [slotType |-> "output"]
      cleared == IF floatingTerminus
                 THEN RerouteRemoveAllFloatingLinks(connected, fromRerouteId.v)
                 ELSE connected
      cleaned == CleanUpReroutes(cleared, originalReroutes, 1, link, fromRerouteId)
  IN DispatchLinkCreated(cleaned, connected.links[newId])

\* connectToRerouteInput(reroute, {node, input, link}, events,
\* originalReroutes)
RenderConnectToRerouteInput(net, this, reroute, node, input, link, originalReroutes, newId) ==
  LET fromRerouteId == FromRerouteId(this)
      floatingTerminus ==
        /\ IsVal(fromRerouteId)
        /\ net.reroutes[fromRerouteId.v].floating = [slotType |-> "output"]
      parented == [net EXCEPT !.reroutes[reroute].parentId = fromRerouteId]
      connected == ConnectSlots(parented, newId, TypeOfOutput(this.fromSlot),
                                this.node, this.fromSlotIndex, node, input,
                                link.parentId)
      cleared == IF floatingTerminus
                 THEN RerouteRemoveAllFloatingLinks(connected, fromRerouteId.v)
                 ELSE connected
      cleaned == CleanUpReroutes(cleared, originalReroutes, 1, link, fromRerouteId)
  IN DispatchLinkCreated(cleaned, connected.links[newId])

---------------------------------------------------------------------------
(* Dragging links onto reroutes: disconnect and connectToRerouteInput   *)
(* on one network.                                                         *)

\* The calls made on one network are counted in last.calls; connecting
\* stops at this many.
MaxCalls == 3

\* The render links that can be constructed on the network: dragged from an
\* output of a node, directly or from a reroute of the network.
RenderLinks ==
  {NewToInputRenderLink(n, OutputSlot(n, s), f) :
     n \in NodeIds, s \in SlotIndexes, f \in ParentChoices(DOMAIN reroutes)}

\* The links that end at an input by way of reroute r: the links of the
\* network and the floating links with a known target that pass through r.
TargetInputs(r) ==
  {links[l] : l \in {x \in DOMAIN links : r \in OnChain(reroutes, links[x])}}
  \cup {floatingLinks[f] :
          f \in {x \in DOMAIN floatingLinks :
                   /\ r \in OnChain(reroutes, floatingLinks[x])
                   /\ ~isFloatingInput(floatingLinks[x])}}

\* The id connectSlots gives the link it makes: the first one not in use.
NextLinkId == CHOOSE id \in LinkIds \ DOMAIN links :
                \A other \in LinkIds \ DOMAIN links : id <= other

\* renderLink.connectToRerouteInput(reroute, {node, input, link}, events,
\* originalReroutes) for the render link this dropped on reroute r: link is
\* one of the links that reach an input through the reroute, node and input
\* are its target, and originalReroutes are the reroutes before the reroute,
\* nearest first.
DropOnReroute(this, r) ==
  \E link \in TargetInputs(r) :
    LET originalReroutes == Reverse(LLinkGetReroutes(reroutes, reroutes[r]))
        after == RenderConnectToRerouteInput(Net, this, r, link.target_id,
                                             link.target_slot, link,
                                             originalReroutes, NextLinkId)
    IN /\ SetNet(after)
       /\ last' = [op |-> "connectToRerouteInput",
                   calls |-> last.calls + 1,
                   link |-> link,
                   reroute |-> r,
                   fromReroute |-> FromRerouteId(this),
                   originalReroutes |-> originalReroutes,
                   newLinkId |-> NextLinkId,
                   removed |-> DOMAIN reroutes \ DOMAIN after.reroutes,
                   added |-> after.added,
                   log |-> after.log]
       /\ UNCHANGED <<walk, canvasVars>>

\* connectToRerouteInput as the canvas calls it: the render link is dropped
\* on a reroute that is not upstream of the reroute it is dragged from.
ConnectToRerouteInput ==
  /\ last.calls < MaxCalls
  /\ LinkIds \ DOMAIN links # {}
  /\ \E this \in RenderLinks, r \in DOMAIN reroutes :
       /\ r \notin OnChain(reroutes, [parentId |-> FromRerouteId(this)])
       /\ DropOnReroute(this, r)

\* connectToRerouteInput with any reroute of the network as the reroute
\* dropped on: the method itself compares neither reroute with the other.
ConnectToAnyReroute ==
  /\ last.calls < MaxCalls
  /\ LinkIds \ DOMAIN links # {}
  /\ \E this \in RenderLinks, r \in DOMAIN reroutes : DropOnReroute(this, r)

\* A graph as connecting links and inserting reroutes leave it, with one
\* link id still free.
InitConnect ==
  \E rset \in SUBSET RerouteIds, lset \in {LinkIds \ {l} : l \in LinkIds} :
    \E par \in [rset -> ParentChoices(rset)], lpar \in [lset -> ParentChoices(rset)] :
      LET ls == [l \in lset |-> LinkOf(l, lpar[l])]
          shape == [r \in rset |-> NewReroute(par[r], {})]
          rr == [r \in rset |->
                   NewReroute(par[r], {l \in lset : r \in OnChain(shape, ls[l])})]
      IN /\ Acyclic(shape)
         /\ \A r \in rset : rr[r].linkIds # {}
         /\ links = ls
         /\ reroutes = rr
         /\ floatingLinks = << >>
         /\ lastFloatingLinkId = 0
         /\ last = [op |-> "init", calls |-> 0]
         /\ walk = [pc |-> "idle"]
         /\ InitCanvas

NextConnect == Disconnect \/ ConnectToRerouteInput

SpecConnect == Init /\ [][NextConnect]_vars

FloatingOnBothEnds(L) == isFloatingOutput(L) /\ isFloatingInput(L)

---------------------------------------------------------------------------
(* Every operation of LLink and ToInputRenderLink on one network, with the *)
(* outcome of the call kept in last.result where the call has one.         *)

\* new ToInputRenderLink(network, node, fromSlot, fromReroute) with an
\* output slot of any node of the graph.
NewRenderLink ==
  \E node \in NodeIds, slotNode \in NodeIds, index \in SlotIndexes,
     fromReroute \in ParentChoices(DOMAIN reroutes) :
    /\ last' = [op |-> "new", calls |-> last.calls, node |-> node,
                fromSlot |-> OutputSlot(slotNode, index),
                result |-> NewToInputRenderLink(node, OutputSlot(slotNode, index),
                                                fromReroute)]
    /\ NetUnchanged

\* renderLink.canConnectToOutput()
CanConnectToOutput ==
  \E this \in RenderLinks :
    /\ last' = [op |-> "canConnectToOutput", calls |-> last.calls,
                result |-> RenderCanConnectToOutput]
    /\ NetUnchanged

\* renderLink.connectToOutput()
ConnectToOutput ==
  \E this \in RenderLinks :
    LET call == RenderConnectToOutput(Net)
    IN /\ SetNet(call.net)
       /\ last' = [op |-> "connectToOutput", calls |-> last.calls,
                   result |-> call.result]
       /\ UNCHANGED <<walk, canvasVars>>

\* renderLink.connectToRerouteOutput()
ConnectToRerouteOutput ==
  \E this \in RenderLinks :
    LET call == RenderConnectToOutput(Net)
    IN /\ SetNet(call.net)
       /\ last' = [op |-> "connectToRerouteOutput", calls |-> last.calls,
                   result |-> call.result]
       /\ UNCHANGED <<walk, canvasVars>>

\* renderLink.connectToInput(node, input, events)
ConnectToInput ==
  /\ last.calls < MaxCalls
  /\ LinkIds \ DOMAIN links # {}
  /\ \E this \in RenderLinks, node \in NodeIds, input \in SlotIndexes :
       LET after == RenderConnectToInput(Net, this, node, input, NextLinkId)
       IN /\ SetNet(after)
          /\ last' = [op |-> "connectToInput", calls |-> last.calls + 1,
                      fromNode |-> this.node,
                      fromReroute |-> FromRerouteId(this),
                      node |-> node, input |-> input,
                      newLinkId |-> NextLinkId,
                      log |-> after.log, result |-> Undefined]
          /\ UNCHANGED <<walk, canvasVars>>

\* The link objects of the network: its links and its floating links.
NetworkLinks ==
  {links[l] : l \in DOMAIN links} \cup {floatingLinks[f] : f \in DOMAIN floatingLinks}

\* L.toFloating(slotType, parentId) for a link object of the network
LinkToFloating ==
  \E L \in NetworkLinks, slotType \in {"input", "output"}, parentId \in 0..MaxReroutes :
    /\ last' = [op |-> "toFloating", calls |-> last.calls, link |-> L,
                slotType |-> slotType, parentId |-> parentId,
                result |-> LLinkToFloating(L, slotType, parentId)]
    /\ NetUnchanged

\* L.configure(o) for a copy L of a link object of the network
LinkConfigureFrom(sources) ==
  \E L \in NetworkLinks, o \in sources :
    /\ last' = [op |-> "configure", calls |-> last.calls, before |-> L,
                o |-> o, result |-> LLinkConfigure(L, o)]
    /\ NetUnchanged

LinkConfigure == LinkConfigureFrom(RecordSources) \/ LinkConfigureFrom(ArraySources)

\* The calls that change the network are made while fewer than this many
\* of them were made.
MaxRenderCalls == 2

RenderCallsLeft == last.calls < MaxRenderCalls

\* The network is as construction or the last call that changes networks
\* left it.  The other calls are made on such a network: made one after
\* another they read the same network and have the same outcomes.
Settled ==
  last.op \in {"init", "disconnect", "connectToInput", "connectToRerouteInput"}

NextRender ==
  \/ (Settled /\ NewRenderLink)
  \/ (Settled /\ CanConnectToOutput)
  \/ (Settled /\ ConnectToOutput)
  \/ (Settled /\ ConnectToRerouteOutput)
  \/ (RenderCallsLeft /\ ConnectToInput)
  \/ (RenderCallsLeft /\ ConnectToRerouteInput)
  \/ (RenderCallsLeft /\ Disconnect)
  \/ (Settled /\ LinkToFloating)
  \/ (Settled /\ LinkConfigure)
  \/ (Settled /\ GetReroutes)
  \/ (Settled /\ GetFirstReroute)
  \/ (Settled /\ FindNextReroute)
  \/ (Settled /\ GetOriginNode)
  \/ (Settled /\ GetTargetNode)

SpecRender == InitConnect /\ [][NextRender]_vars

OutputOps == {"connectToOutput", "connectToRerouteOutput"}

RefusesOutput ==
  /\ last'.op \in OutputOps =>
       /\ last'.result = Thrown
       /\ UNCHANGED <<links, reroutes, floatingLinks, lastFloatingLinkId>>
  /\ last'.op = "canConnectToOutput" => last'.result = FALSE

\* C19: connectToOutput and connectToRerouteOutput of a ToInputRenderLink
\* throw on every call, in every state of the network, and leave links,
\* reroutes and floatingLinks (and the floating link counter) as they were;
\* canConnectToOutput returns false in every state.
C19_OutputRefused == [][RefusesOutput]_vars

\* connectToRerouteOutput was called, and threw, on a network that holds a
\* link and a floating link.
C19_Witness ==
  /\ last.op = "connectToRerouteOutput"
  /\ last.result = Thrown
  /\ links # << >>
  /\ floatingLinks # << >>

\* The calls whose record holds an outcome that is a record: an Error, a
\* link, a render link or an optional value.  The other calls return an
\* array, a boolean or nothing.
OpsWithOutcome ==
  OutputOps \cup {"new", "connectToInput", "toFloating", "configure",
                  "getFirstReroute", "findNextReroute", "getOriginNode",
                  "getTargetNode"}

\* The last call ended in a thrown Error.
Raised == last.op \in OpsWithOutcome /\ last.result = Thrown

\* The last call constructed a render link from a slot that is not one of
\* the outputs of its node.
ForeignSlot == last.op = "new" /\ IndexOfOutput(last.node, last.fromSlot) = -1

\* C20 as stated: connecting a to-input render link to an output is the sole
\* case in which an operation of LLink or ToInputRenderLink throws; the
\* construction of a ToInputRenderLink, connectToInput,
\* connectToRerouteInput, disconnect, toFloating, configure and the lookups
\* raise no error for any input.
C20_SoleThrow == Raised => last.op \in OutputOps

\* C20, amended: an operation of LLink or ToInputRenderLink throws in
\* exactly two cases: connectToOutput or connectToRerouteOutput is called,
\* or a ToInputRenderLink is constructed with a fromSlot that is not among
\* the outputs of its node.  connectToInput, connectToRerouteInput,
\* disconnect, toFloating, configure and the lookups raise no error.
C20_ThrowsExactly == Raised <=> (last.op \in OutputOps \/ ForeignSlot)

\* A render link was constructed on a network with reroutes from a slot of
\* another node, and the constructor threw.
C20_Witness ==
  /\ ForeignSlot
  /\ last.result = Thrown
  /\ reroutes # << >>

---------------------------------------------------------------------------
(* connectToRerouteInput by itself, with every pair of reroutes *)

NextDrop == ConnectToAnyReroute \/ Disconnect

SpecDrop == InitConnect /\ [][NextDrop]_vars

\* C21: after connectToRerouteInput(reroute, ...) on a network whose reroute
\* parentId chains are acyclic, the chains are still acyclic, for every
\* choice of the reroute dropped on and of fromReroute.
C21_StaysAcyclic ==
  [][(last'.op = "connectToRerouteInput" /\ Acyclic(reroutes)) => Acyclic(reroutes')]_vars

---------------------------------------------------------------------------
(* The clean-up of connectToRerouteInput *)

\* The place in originalReroutes where the clean-up stops: the first
\* reroute that is fromReroute, or past the end when there is none.
StopAt(originalReroutes, fromRerouteId) ==
  LET hits == {i \in 1..Len(originalReroutes) :
                 Val(originalReroutes[i]) = fromRerouteId}
  IN IF hits = {} THEN Len(originalReroutes) + 1
     ELSE CHOOSE i \in hits : \A j \in hits : i <= j

\* The reroutes named by the log entries of one kind of call, in call order.
RECURSIVE ReroutesOf(_, _)
ReroutesOf(log, call) ==
  IF log = <<>> THEN <<>>
  ELSE IF Head(log).call = call
       THEN <<Head(log).reroute>> \o ReroutesOf(Tail(log), call)
       ELSE ReroutesOf(Tail(log), call)

\* The moved link with its target erased, as a link not yet in the network
\* that ends at reroute x.
FloatingCopyAt(link, x) ==
  [link EXCEPT !.id = -1, !.target_id = -1, !.target_slot = -1,
               !.parentId = Val(x)]

CleansUp ==
  last'.op = "connectToRerouteInput" =>
    LET call == last'
        link == call.link
        orig == call.originalReroutes
        stop == StopAt(orig, call.fromReroute)
        isFloatingLink == /\ link.id \in DOMAIN floatingLinks
                          /\ floatingLinks[link.id] = link
        IdsAt(x) == IF isFloatingLink THEN reroutes'[x].floatingLinkIds
                    ELSE reroutes'[x].linkIds
        OwnNew(x) == {f \in (lastFloatingLinkId + 1)..lastFloatingLinkId' :
                        floatingLinks'[f].parentId = Val(x)}
        Emptied(x) == /\ reroutes'[x].linkIds = {}
                      /\ reroutes'[x].floatingLinkIds \ OwnNew(x) = {}
    IN /\ ReroutesOf(call.log, "removeLink") = SubSeq(orig, 1, stop - 1)
       /\ \A i \in 1..Len(orig) :
            LET x == orig[i]
            IN IF i < stop
               THEN /\ x \in DOMAIN reroutes' =>
                         /\ link.id \notin IdsAt(x)
                         /\ totalLinks(reroutes'[x]) >= 1
                         /\ Emptied(x) =>
                              /\ ~isFloating(link)
                              /\ reroutes'[x].floating = [slotType |-> "output"]
                              /\ \E f \in OwnNew(x) :
                                   /\ OwnNew(x) = {f}
                                   /\ floatingLinks'[f] =
                                        [FloatingCopyAt(link, x) EXCEPT !.id = f]
                              /\ \E k \in 1..Len(call.added) :
                                   call.added[k] = FloatingCopyAt(link, x)
                         /\ ~Emptied(x) => OwnNew(x) = {}
                    /\ x \notin DOMAIN reroutes' =>
                         /\ isFloating(link)
                         /\ reroutes[x].linkIds = {}
               ELSE /\ x \in DOMAIN reroutes'
                    /\ OwnNew(x) = {}
                    /\ \A k \in 1..Len(call.log) :
                         call.log[k].call \in {"removeLink", "remove"} =>
                           call.log[k].reroute # x

\* C22: the clean-up of connectToRerouteInput walks originalReroutes in
\* order and stops at the first reroute that is fromReroute.  Each reroute
\* before it has the moved link removed; one left with no links is removed
\* from the network when the moved link is floating, and otherwise stays,
\* is marked floating = {slotType: "output"} and gets a new floating link,
\* a copy of the moved link with the target erased and that reroute as
\* parentId.  The reroutes at or after fromReroute are not touched.
C22_CleanUp == [][CleansUp]_vars

\* The clean-up floated a reroute and then stopped at fromReroute, before
\* the end of the list.
C22_Witness ==
  /\ last.op = "connectToRerouteInput"
  /\ last.added # <<>>
  /\ 1 < StopAt(last.originalReroutes, last.fromReroute)
  /\ StopAt(last.originalReroutes, last.fromReroute) <= Len(last.originalReroutes)

\* The places of the log entries of one kind of call.
CallsOf(log, call) == {k \in 1..Len(log) : log[k].call = call}

FloatingTerminusHandled ==
  last'.op = "connectToRerouteInput" =>
    LET call == last'
        log == call.log
        from == call.fromReroute
        wasTerminus == /\ IsVal(from)
                       /\ reroutes[from.v].floating = [slotType |-> "output"]
    IN /\ CallsOf(log, "connectSlots") = {1}
       /\ wasTerminus =>
            /\ \E k \in CallsOf(log, "removeAllFloatingLinks") :
                 /\ CallsOf(log, "removeAllFloatingLinks") = {k}
                 /\ k > 1
                 /\ log[k].reroute = from.v
            /\ \A f \in reroutes[from.v].floatingLinkIds :
                 f \notin DOMAIN floatingLinks'
       /\ ~wasTerminus =>
            /\ CallsOf(log, "removeAllFloatingLinks") = {}
            /\ DOMAIN floatingLinks \subseteq DOMAIN floatingLinks'
       /\ CallsOf(log, "dispatch") = {Len(log)}
       /\ log[Len(log)].event = "link-created"
       /\ log[Len(log)].link = log[1].link
       /\ log[1].link = links'[call.newLinkId]

\* C23: connectToRerouteInput removes all floating links of fromReroute
\* exactly when fromReroute.floating.slotType was "output" at the start of
\* the call; the removal comes after connectSlots has made the new link,
\* and exactly one "link-created" event is dispatched, as the last step,
\* after the clean-up.
C23_FloatingTerminus == [][FloatingTerminusHandled]_vars

\* A link was dragged from the final reroute of a floating chain, and the
\* floating links of that reroute were removed.
C23_Witness ==
  /\ last.op = "connectToRerouteInput"
  /\ CallsOf(last.log, "removeAllFloatingLinks") # {}
  /\ CallsOf(last.log, "removeLink") # {}

---------------------------------------------------------------------------
(* connectToInput *)

ConnectsOnce ==
  last'.op = "connectToInput" =>
    LET call == last'
        log == call.log
    IN IF call.node = call.fromNode
       THEN /\ log = <<>>
            /\ UNCHANGED <<links, reroutes, floatingLinks, lastFloatingLinkId>>
       ELSE /\ Len(log) = 2
            /\ log[1].call = "connectSlots"
            /\ log[1].afterRerouteId = call.fromReroute
            /\ log[2].call = "dispatch"
            /\ log[2].event = "link-created"
            /\ log[2].link = log[1].link
            /\ DOMAIN links' = DOMAIN links \cup {call.newLinkId}
            /\ call.newLinkId \notin DOMAIN links
            /\ links'[call.newLinkId] = log[1].link
            /\ log[1].link.parentId = call.fromReroute
            /\ log[1].link.origin_id = call.fromNode
            /\ log[1].link.target_id = call.node
            /\ log[1].link.target_slot = call.input
            /\ \A l \in DOMAIN links : links'[l] = links[l]

\* C24: connectToInput creates no link and dispatches no event when the
\* target node is the node the render link is dragged from; otherwise it
\* calls connectSlots exactly once, with fromReroute's id as the parent
\* reroute, and then dispatches exactly one "link-created" event that
\* carries the link connectSlots returned.
C24_ConnectToInput == [][ConnectsOnce]_vars

\* A link dragged from a reroute was connected to an input of another node.
C24_Witness ==
  /\ last.op = "connectToInput"
  /\ last.node # last.fromNode
  /\ IsVal(last.fromReroute)
  /\ Len(last.log) = 2

---------------------------------------------------------------------------
(* Sequences of disconnect calls *)

\* C25: no empty reroute is left behind by disconnect.  From a consistent
\* network in which every reroute has totalLinks >= 1, after any sequence
\* of disconnect calls with any keepReroutes values, every reroute still
\* in network.reroutes has totalLinks >= 1.
C25_NoEmptyReroute ==
  \A r \in DOMAIN reroutes : totalLinks(reroutes[r]) >= 1

\* After a second disconnect, with a keep flag, a reroute is held by
\* floating links alone.
C25_Witness ==
  /\ Disconnected
  /\ last.calls >= 2
  /\ last.keepReroutes # "undefined"
  /\ \E r \in DOMAIN reroutes :
       reroutes[r].linkIds = {} /\ reroutes[r].floatingLinkIds # {}

\* L.disconnect(network, keepReroutes) once more, for the link L that the
\* last call disconnected: L is no longer in network.links, and the caller
\* still holds it.
DisconnectAgain ==
  /\ last.op = "disconnect"
  /\ \E keepReroutes \in KeepFlags :
       LET after == LLinkDisconnect(Net, last.link, keepReroutes)
       IN /\ SetNet(after)
          /\ last' = [op |-> "disconnectAgain", calls |-> last.calls + 1,
                      link |-> last.link,
                      first |-> last.keepReroutes,
                      keepReroutes |-> keepReroutes,
                      added |-> after.added]
          /\ UNCHANGED <<walk, canvasVars>>

NextTwice == Disconnect \/ DisconnectAgain

SpecTwice == Init /\ [][NextTwice]_vars

SecondCallChangesNothing ==
  (/\ last'.op = "disconnectAgain"
   /\ last'.first = "undefined"
   /\ last'.keepReroutes = "undefined")
  => UNCHANGED <<links, reroutes, floatingLinks, lastFloatingLinkId>>

\* C26: disconnect without a keep flag is idempotent.  A second
\* L.disconnect(network), after the first, leaves network.links,
\* network.reroutes (keys, linkIds, floatingLinkIds, floating markers) and
\* network.floatingLinks exactly as the first call left them.
C26_Idempotent == [][SecondCallChangesNothing]_vars

\* The second call met reroutes of the link's chain that other links or
\* floating links had kept in the network.
C26_Witness ==
  /\ last.op = "disconnectAgain"
  /\ last.first = "undefined"
  /\ last.keepReroutes = "undefined"
  /\ LLinkGetReroutes(reroutes, last.link) # <<>>

\* What the claims compare of a network: links, reroutes and floatingLinks.
Contents(net) ==
  [links |-> net.links, reroutes |-> net.reroutes,
   floatingLinks |-> net.floatingLinks]

\* A.disconnect(network) followed by B.disconnect(network), for two links
\* of network.links
DisconnectBoth ==
  \E a \in DOMAIN links : \E b \in DOMAIN links \ {a} :
    LET thenB == LLinkDisconnect(LLinkDisconnect(Net, links[a], "undefined"),
                                 links[b], "undefined")
        thenA == LLinkDisconnect(LLinkDisconnect(Net, links[b], "undefined"),
                                 links[a], "undefined")
    IN /\ SetNet(thenB)
       /\ last' = [op |-> "disconnectBoth", calls |-> last.calls + 2,
                   first |-> links[a], second |-> links[b],
                   shared |-> SeqToSet(LLinkGetReroutes(reroutes, links[a]))
                                \cap SeqToSet(LLinkGetReroutes(reroutes, links[b])),
                   result |-> Contents(thenB),
                   otherOrder |-> Contents(thenA)]
       /\ UNCHANGED <<walk, canvasVars>>

NextPair == Disconnect \/ DisconnectBoth

SpecPair == Init /\ [][NextPair]_vars

\* C27: disconnects without a keep flag commute.  For two distinct links
\* of a consistent network, sharing any number of chain reroutes,
\* disconnecting one and then the other leaves the same links, reroutes
\* and floatingLinks as the two calls in the other order.
C27_Commute ==
  last.op = "disconnectBoth" => last.result = last.otherOrder

\* Two links that share a chain reroute, one of them passing through a
\* further reroute of its own, were disconnected, and the shared reroute
\* went with the second of them.
C27_Witness ==
  /\ last.op = "disconnectBoth"
  /\ last.shared # {}
  /\ last.first.parentId # last.second.parentId
  /\ \A r \in last.shared : r \notin DOMAIN reroutes

---------------------------------------------------------------------------
(* GradientWidget (src/src/widgets/GradientWidget.ts, first 625 lines).    *)
(*                                                                         *)
(* A stop is [position, color].  Positions lie on a grid: position p of    *)
(* the model is the normalised position p / MaxPosition of the code.  A    *)
(* colour "#rrggbb" with equal channels is its channel value 0..255.       *)
(* Stop indexes are the code's, counted from 0.                            *)

MaxWidgets == 2
MaxStops == 3
MaxPosition == 2
MaxEvents == 4

Positions == 0..MaxPosition
White == 255
Black == 0

Stop(position, color) == [position |-> position, color |-> color]

\* value[i] of the code
StopAt0(value, i) == value[i + 1]

DefaultStops == <<Stop(0, White), Stop(MaxPosition, Black)>>

\* The values and options a widget is constructed with.
GivenValues ==
  {Undefined, Val(<< >>), Val(<<Stop(0, Black)>>),
   Val(<<Stop(0, Black), Stop(MaxPosition, White)>>),
   Val(<<Stop(0, White), Stop(1, Black), Stop(MaxPosition, White)>>)}

GivenOptions == {Undefined, Val([read_only |-> TRUE])}

\* new GradientWidget(widget)
NewGradientWidget(widget) ==
  [value |-> IF ~IsVal(widget.value) \/ Len(widget.value.v) < 2
             THEN DefaultStops
             ELSE widget.value.v,
   options |-> IF IsVal(widget.options) THEN widget.options.v ELSE [read_only |-> FALSE],
   selectedStopIndex |-> -1]

\* Where the pointer is, as the hit tests see it.  "track": within the hit
\* area of the stop markers; "gradient": inside gradientRect and above that
\* area; "below": under the markers, not beyond the delete threshold;
\* "far": beyond the delete threshold.  x is the grid position under the
\* pointer; the grid is wider than the hit area of a marker.
Rows == {"track", "gradient", "below", "far"}

\* this.getStopAtPosition(x, y): the first stop under the pointer, or -1
GetStopAtPosition(value, x, row) ==
  LET hit == {i \in 0..(Len(value) - 1) :
                row = "track" /\ StopAt0(value, i).position = x}
  IN IF hit = {} THEN -1 ELSE CHOOSE i \in hit : \A j \in hit : i <= j

\* this.isOverGradient(x, y)
IsOverGradient(x, row) == row = "gradient"

\* this.getNormalizedPosition(x, y)
GetNormalizedPosition(x) ==
  IF x < 0 THEN 0 ELSE IF x > MaxPosition THEN MaxPosition ELSE x

\* stops.sort((a, b) => a.position - b.position): a stable sort
RECURSIVE InsertByPosition(_, _)
InsertByPosition(sorted, stop) ==
  IF sorted = << >> THEN <<stop>>
  ELSE IF sorted[Len(sorted)].position <= stop.position
       THEN Append(sorted, stop)
       ELSE Append(InsertByPosition(SubSeq(sorted, 1, Len(sorted) - 1), stop),
                   sorted[Len(sorted)])

RECURSIVE SortByPosition(_)
SortByPosition(stops) ==
  IF stops = << >> THEN << >>
  ELSE InsertByPosition(SortByPosition(SubSeq(stops, 1, Len(stops) - 1)),
                        stops[Len(stops)])

\* Math.round of numerator / denominator, denominator > 0
RoundedQuotient(numerator, denominator) ==
  (2 * numerator + denominator) \div (2 * denominator)

\* this.interpolateColor(color1, color2, factor), factor = along / span.
\* A span of 0 divides by zero: the colour is not a number (-1).
InterpolateColor(color1, color2, along, span) ==
  IF span = 0 THEN -1
  ELSE RoundedQuotient(color1 * span + along * (color2 - color1), span)

\* this.getColorAtPosition(position)
GetColorAtPosition(value, position) ==
  IF Len(value) = 0 THEN White
  ELSE IF Len(value) = 1 THEN value[1].color
  ELSE
    LET sortedStops == SortByPosition(value)
        n == Len(sortedStops)
        between == {i \in 1..(n - 1) :
                      /\ position >= sortedStops[i].position
                      /\ position <= sortedStops[i + 1].position}
        first == CHOOSE i \in between : \A j \in between : i <= j
        lower == IF between = {} THEN sortedStops[1] ELSE sortedStops[first]
        upper == IF between = {} THEN sortedStops[n] ELSE sortedStops[first + 1]
    IN IF position <= sortedStops[1].position THEN sortedStops[1].color
       ELSE IF position >= sortedStops[n].position THEN sortedStops[n].color
       ELSE InterpolateColor(lower.color, upper.color,
                             position - lower.position,
                             upper.position - lower.position)

\* newStops.findIndex(s => s.position === position && s.color === color)
FindStopIndex(stops, position, color) ==
  LET found == {i \in 0..(Len(stops) - 1) :
                  /\ StopAt0(stops, i).position = position
                  /\ StopAt0(stops, i).color = color}
  IN IF found = {} THEN -1 ELSE CHOOSE i \in found : \A j \in found : i <= j

\* The widgets and the module-level variables as one value, with what the
\* handler under way has done: applied lists the runs of applyColorChange
\* that passed its test (activeStopIndex and the length of the active
\* widget's value at that moment), threw tells that a TypeError left the
\* handler.
Module ==
  [widgets |-> widgets, globalColorInput |-> globalColorInput,
   activeGradientWidget |-> activeGradientWidget,
   activeStopIndex |-> activeStopIndex, currentOptions |-> currentOptions,
   animationFrameId |-> animationFrameId, pendingUpdate |-> pendingUpdate,
   scheduled |-> scheduled, applied |-> << >>, threw |-> FALSE]

SetModule(g) ==
  /\ widgets' = g.widgets
  /\ globalColorInput' = g.globalColorInput
  /\ activeGradientWidget' = g.activeGradientWidget
  /\ activeStopIndex' = g.activeStopIndex
  /\ currentOptions' = g.currentOptions
  /\ animationFrameId' = g.animationFrameId
  /\ pendingUpdate' = g.pendingUpdate
  /\ scheduled' = g.scheduled

\* widget.setValue(value, options) of BaseWidget
SetValue(g, w, value) == [g EXCEPT !.widgets[w].value = value]

\* globalColorInput && activeGradientWidget && currentOptions &&
\* activeStopIndex !== -1
ColorInputActive(g) ==
  /\ IsVal(g.globalColorInput)
  /\ IsVal(g.activeGradientWidget)
  /\ IsVal(g.currentOptions)
  /\ g.activeStopIndex # -1

\* cancelAnimationFrame(animationFrameId); animationFrameId = null
CancelFrame(g) ==
  IF IsVal(g.animationFrameId)
  THEN [g EXCEPT !.scheduled.frame = FALSE, !.animationFrameId = Null]
  ELSE g

\* applyColorChange().  stops[activeStopIndex].color = ... raises a
\* TypeError when the array has no such stop, and the rest of the function
\* and of its caller is not run.
ApplyColorChange(g) ==
  IF ColorInputActive(g)
  THEN LET w == g.activeGradientWidget.v
           stops == g.widgets[w].value
           i == g.activeStopIndex
           ran == [g EXCEPT !.applied = Append(@, [index |-> i, length |-> Len(stops)])]
       IN IF i < 0 \/ i >= Len(stops)
          THEN [ran EXCEPT !.threw = TRUE]
          ELSE [SetValue(ran, w, [stops EXCEPT ![i + 1].color = g.globalColorInput.v.value])
                  EXCEPT !.pendingUpdate = FALSE]
  ELSE [g EXCEPT !.pendingUpdate = FALSE]

\* hideGlobalColorInput()
HideGlobalColorInput(g) ==
  LET applied == IF g.pendingUpdate /\ ColorInputActive(g)
                 THEN ApplyColorChange(g) ELSE g
      cancelled == CancelFrame(applied)
      justChangedColor == ColorInputActive(cancelled)
  IN IF applied.threw THEN applied
     ELSE IF justChangedColor
          THEN [cancelled EXCEPT !.pendingUpdate = FALSE]
          ELSE [cancelled EXCEPT !.pendingUpdate = FALSE,
                                 !.activeGradientWidget = Null,
                                 !.activeStopIndex = -1,
                                 !.currentOptions = Null]

\* handleColorChange(), the listener of the input event
HandleColorChange(g) ==
  IF ~ColorInputActive(g) THEN g
  ELSE LET stops == g.widgets[g.activeGradientWidget.v].value
           i == g.activeStopIndex
           unchanged == /\ i >= 0 /\ i < Len(stops)
                        /\ g.globalColorInput.v.value = StopAt0(stops, i).color
       IN IF unchanged THEN g
          ELSE IF ~IsVal(g.animationFrameId)
               THEN [g EXCEPT !.pendingUpdate = TRUE,
                              !.animationFrameId = Val(1),
                              !.scheduled.frame = TRUE]
               ELSE [g EXCEPT !.pendingUpdate = TRUE]

\* The callback handleColorChange hands to requestAnimationFrame
FrameCallback(g) ==
  LET applied == IF g.pendingUpdate THEN ApplyColorChange(g) ELSE g
  IN IF applied.threw THEN applied
     ELSE [applied EXCEPT !.animationFrameId = Null]

\* The listener of the change event
ChangeListener(g) ==
  LET applied == IF ColorInputActive(g) THEN ApplyColorChange(g) ELSE g
  IN IF applied.threw THEN applied
     ELSE [applied EXCEPT !.scheduled.hide = @ + 1]

\* this.openColorPicker(stopIndex, options).  The timers that focus and
\* click the input touch the document only.
OpenColorPicker(g, w, stopIndex) ==
  LET stops == g.widgets[w].value
      active == [g EXCEPT !.activeGradientWidget = Val(w),
                          !.activeStopIndex = stopIndex,
                          !.currentOptions = Val([node |-> w])]
      created == IF IsVal(active.globalColorInput) THEN active
                 ELSE [active EXCEPT !.globalColorInput = Val([value |-> Black])]
  IN IF stopIndex < 0 \/ stopIndex >= Len(stops)
     THEN [created EXCEPT !.threw = TRUE]
     ELSE CancelFrame([created EXCEPT
                         !.globalColorInput = Val([value |-> StopAt0(stops, stopIndex).color]),
                         !.pendingUpdate = FALSE])

\* this.addStop(position, color, options): the new value and the index of
\* the new stop
AddStop(g, w, position, color) ==
  LET newStops == SortByPosition(Append(g.widgets[w].value, Stop(position, color)))
  IN [g |-> SetValue(g, w, newStops),
      newStopIndex |-> FindStopIndex(newStops, position, color)]

\* this.onClick(options)
OnClickOf(g, w, x, row) ==
  LET this == g.widgets[w]
      clickedStopIndex == GetStopAtPosition(this.value, x, row)
      position == GetNormalizedPosition(x)
      added == AddStop(g, w, position, GetColorAtPosition(this.value, position))
  IN IF this.options.read_only THEN g
     ELSE IF clickedStopIndex # -1
     THEN IF clickedStopIndex = g.activeStopIndex
          THEN OpenColorPicker(g, w, clickedStopIndex)
          ELSE [g EXCEPT !.widgets[w].selectedStopIndex = clickedStopIndex,
                         !.activeStopIndex = clickedStopIndex]
     ELSE IF IsOverGradient(x, row)
     THEN IF added.newStopIndex # -1
          THEN OpenColorPicker(
                 [added.g EXCEPT !.widgets[w].selectedStopIndex = added.newStopIndex,
                                 !.activeStopIndex = added.newStopIndex],
                 w, added.newStopIndex)
          ELSE added.g
     ELSE IF g.activeStopIndex # -1 \/ this.selectedStopIndex # -1
     THEN [g EXCEPT !.widgets[w].selectedStopIndex = -1,
                    !.activeStopIndex = -1]
     ELSE g

\* newStops.splice(index, 1)
Splice(stops, index) ==
  IF index < 0 \/ index >= Len(stops) THEN stops
  ELSE SubSeq(stops, 1, index) \o SubSeq(stops, index + 2, Len(stops))

\* The test of onDrag that lets a stop be deleted, without the length
DragDeletesAnyLength(value, row) == row = "far"

\* y > deleteThreshold && this.value.length > 2
DragDeletes(value, row) == row = "far" /\ Len(value) > 2

\* this.onDrag(options)
OnDragOf(g, w, x, row) ==
  LET this == g.widgets[w]
      selected == this.selectedStopIndex
  IN IF this.options.read_only THEN g
     ELSE IF selected # -1 /\ selected = g.activeStopIndex
     THEN IF DragDeletes(this.value, row)
          THEN [SetValue(g, w, Splice(this.value, selected))
                  EXCEPT !.widgets[w].selectedStopIndex = -1,
                         !.activeStopIndex = -1]
          ELSE IF selected >= Len(this.value)
               THEN [g EXCEPT !.threw = TRUE]
               ELSE SetValue(g, w, [this.value EXCEPT
                                      ![selected + 1].position = GetNormalizedPosition(x)])
     ELSE g

\* The colours the user picks in the colour panel.
InputColors == {Black, White}

NetworkUntouched ==
  UNCHANGED <<links, reroutes, floatingLinks, lastFloatingLinkId, walk, items>>

\* An empty graph, the GradientWidget module as loaded.
InitGradient ==
  /\ links = << >>
  /\ reroutes = << >>
  /\ floatingLinks = << >>
  /\ lastFloatingLinkId = 0
  /\ last = [op |-> "init", calls |-> 0]
  /\ walk = [pc |-> "idle"]
  /\ InitCanvas

\* What a handler leaves behind: the module state, and a record of the
\* call (length: the stops the widget had; matched: its selected stop was
\* the active one)
Handled(op, w, g, row) ==
  /\ last.calls < MaxEvents
  /\ SetModule(g)
  /\ last' = [op |-> op, calls |-> last.calls + 1, widget |-> w, row |-> row,
              length |-> IF w \in DOMAIN widgets THEN Len(widgets[w].value) ELSE 0,
              matched |-> /\ w \in DOMAIN widgets
                          /\ widgets[w].selectedStopIndex # -1
                          /\ widgets[w].selectedStopIndex = activeStopIndex,
              applied |-> g.applied, threw |-> g.threw]
  /\ NetworkUntouched

\* new GradientWidget(widget)
NewWidget ==
  \E value \in GivenValues, options \in GivenOptions :
    /\ Len(widgets) < MaxWidgets
    /\ widgets' = Append(widgets, NewGradientWidget([value |-> value, options |-> options]))
    /\ last' = [op |-> "new", calls |-> last.calls, widget |-> Len(widgets) + 1,
                given |-> value, applied |-> << >>, threw |-> FALSE]
    /\ UNCHANGED <<globalColorInput, activeGradientWidget, activeStopIndex, currentOptions, animationFrameId, pendingUpdate, scheduled>>
    /\ NetworkUntouched

\* A click would add a stop
AddsStop(w, x, row) ==
  /\ ~widgets[w].options.read_only
  /\ GetStopAtPosition(widgets[w].value, x, row) = -1
  /\ IsOverGradient(x, row)

\* widget.onClick(options), the pointer at x in row
OnClick ==
  \E w \in DOMAIN widgets, x \in Positions, row \in Rows :
    /\ AddsStop(w, x, row) => Len(widgets[w].value) < MaxStops
    /\ Handled("onClick", w, OnClickOf(Module, w, x, row), row)

\* widget.onDrag(options), the pointer at x in row
OnDrag ==
  \E w \in DOMAIN widgets, x \in Positions, row \in Rows :
    Handled("onDrag", w, OnDragOf(Module, w, x, row), row)

\* The input event of the colour input: the user picked a colour
InputEvent ==
  \E color \in InputColors :
    /\ IsVal(globalColorInput)
    /\ Handled("input", 0,
               HandleColorChange([Module EXCEPT !.globalColorInput = Val([value |-> color])]),
               "input")

\* The animation frame handleColorChange asked for
AnimationFrame ==
  /\ scheduled.frame
  /\ Handled("frame", 0, FrameCallback([Module EXCEPT !.scheduled.frame = FALSE]), "input")

\* The change event of the colour input
ChangeEvent ==
  /\ IsVal(globalColorInput)
  /\ Handled("change", 0, ChangeListener(Module), "input")

\* The blur event of the colour input
BlurEvent ==
  /\ IsVal(globalColorInput)
  /\ Handled("blur", 0, HideGlobalColorInput(Module), "input")

\* The timer of the change listener runs out
HideTimeout ==
  /\ scheduled.hide > 0
  /\ Handled("timeout", 0, HideGlobalColorInput([Module EXCEPT !.scheduled.hide = @ - 1]), "input")

NextGradient ==
  \/ NewWidget
  \/ OnClick
  \/ OnDrag
  \/ InputEvent
  \/ AnimationFrame
  \/ ChangeEvent
  \/ BlurEvent
  \/ HideTimeout

SpecGradient == InitGradient /\ [][NextGradient]_vars

\* this.removeStop(index, options) (src/unnamed/part_002:608-625)
RemoveStopOf(g, w, index) ==
  IF Len(g.widgets[w].value) <= 2 THEN g
  ELSE [SetValue(g, w, Splice(g.widgets[w].value, index))
          EXCEPT !.widgets[w].selectedStopIndex = -1, !.activeStopIndex = -1]

\* widget.removeStop(index, options).  The method is private and the
\* sources hold no call of it; it is called here with every index.
RemoveStop ==
  \E w \in DOMAIN widgets : \E index \in 0..(Len(widgets[w].value) - 1) :
    Handled("removeStop", w, RemoveStopOf(Module, w, index), "none")

NextStops == NextGradient \/ RemoveStop

SpecStops == InitGradient /\ [][NextStops]_vars

\* C28: a GradientWidget always holds at least two stops, after
\* construction with any initial value and after any sequence of clicks,
\* drags (drag-to-delete among them) and colour updates.
C28_AtLeastTwoStops ==
  \A w \in DOMAIN widgets : Len(widgets[w].value) >= 2

\* The selected stop of a widget that holds two stops was dragged beyond
\* the delete threshold.
C28_Witness ==
  /\ last.op = "onDrag"
  /\ last.row = "far"
  /\ last.length = 2
  /\ last.matched
  /\ ~widgets[last.widget].options.read_only

\* C29: whenever applyColorChange writes a colour, activeStopIndex is an
\* index of the active widget's value, whatever the interleaving of clicks
\* and drags on the widgets with the events of the shared colour input.
C29_ValidStopIndex ==
  last.op \in {"onClick", "onDrag", "input", "frame", "change", "blur", "timeout"} =>
    \A k \in 1..Len(last.applied) :
      /\ last.applied[k].index >= 0
      /\ last.applied[k].index < last.applied[k].length

---------------------------------------------------------------------------
(* distributeNodes and distributeItems (src/src/interfaces.ts:484-549).    *)
(*                                                                         *)
(* A JavaScript number is a fraction in lowest terms [num, den], an        *)
(* infinity [inf |-> 1 or -1], or NaN.  An item is [pos, size,             *)
(* boundingRect]; pos[1], pos[2] of the model are pos[0], pos[1] of the    *)
(* code.                                                                   *)

MaxItems == 3

RECURSIVE GCD(_, _)
GCD(a, b) == IF b = 0 THEN a ELSE GCD(b, a % b)

Abs(n) == IF n < 0 THEN -n ELSE n

Fraction(num, den) ==
  LET g == GCD(Abs(num), den) IN [num |-> num \div g, den |-> den \div g]

Number(n) == [num |-> n, den |-> 1]
NaN == [nan |-> TRUE]
Infinity(sign) == [inf |-> sign]

IsNaN(a) == "nan" \in DOMAIN a
IsInfinite(a) == "inf" \in DOMAIN a
IsFinite(a) == "num" \in DOMAIN a

Sign(n) == IF n > 0 THEN 1 ELSE IF n < 0 THEN -1 ELSE 0

\* a + b
Plus(a, b) ==
  IF IsNaN(a) \/ IsNaN(b) THEN NaN
  ELSE IF IsInfinite(a) /\ IsInfinite(b)
       THEN IF a.inf = b.inf THEN a ELSE NaN
  ELSE IF IsInfinite(a) THEN a
  ELSE IF IsInfinite(b) THEN b
  ELSE Fraction(a.num * b.den + b.num * a.den, a.den * b.den)

\* -a
Negative(a) ==
  IF IsNaN(a) THEN NaN
  ELSE IF IsInfinite(a) THEN Infinity(-a.inf)
  ELSE [num |-> -a.num, den |-> a.den]

\* a - b
Minus(a, b) == Plus(a, Negative(b))

\* a * b
Times(a, b) ==
  IF IsNaN(a) \/ IsNaN(b) THEN NaN
  ELSE IF IsInfinite(a) \/ IsInfinite(b)
       THEN LET sa == IF IsInfinite(a) THEN a.inf ELSE Sign(a.num)
                sb == IF IsInfinite(b) THEN b.inf ELSE Sign(b.num)
            IN IF sa * sb = 0 THEN NaN ELSE Infinity(sa * sb)
  ELSE Fraction(a.num * b.num, a.den * b.den)

\* a / b for a finite a and a whole number b >= 0
Divide(a, b) ==
  IF IsNaN(a) THEN NaN
  ELSE IF IsInfinite(a) THEN a
  ELSE IF b = 0
       THEN IF a.num = 0 THEN NaN ELSE Infinity(Sign(a.num))
  ELSE Fraction(a.num, a.den * b)

\* a > b
Greater(a, b) ==
  IF IsNaN(a) \/ IsNaN(b) THEN FALSE
  ELSE IF IsInfinite(a) THEN a.inf = 1 /\ ~(IsInfinite(b) /\ b.inf = 1)
  ELSE IF IsInfinite(b) THEN b.inf = -1
  ELSE a.num * b.den > b.num * a.den

\* !a
IsFalsy(a) == IsNaN(a) \/ (IsFinite(a) /\ a.num = 0)

\* [...items].sort((a, b) => a.pos[index] - b.pos[index]), as the order of
\* the indexes of items: a stable sort
RECURSIVE InsertByPos(_, _, _, _)
InsertByPos(list, order, k, index) ==
  IF order = << >> THEN <<k>>
  ELSE LET tail == order[Len(order)]
       IN IF Greater(list[tail].pos[index], list[k].pos[index])
          THEN Append(InsertByPos(list, SubSeq(order, 1, Len(order) - 1), k, index), tail)
          ELSE Append(order, k)

RECURSIVE SortedByPos(_, _, _)
SortedByPos(list, n, index) ==
  IF n = 0 THEN << >>
  ELSE InsertByPos(list, SortedByPos(list, n - 1, index), n, index)

\* The sum of the first n sizes
RECURSIVE Total(_, _)
Total(sizes, n) ==
  IF n = 0 THEN Number(0) ELSE Plus(Total(sizes, n - 1), sizes[n])

\* The highest of pos + size over the first n items, from -Infinity
RECURSIVE Highest(_, _, _, _)
Highest(list, sizes, n, index) ==
  IF n = 0 THEN Infinity(-1)
  ELSE LET before == Highest(list, sizes, n - 1, index)
           high == Plus(list[n].pos[index], sizes[n])
       IN IF Greater(high, before) THEN high ELSE before

\* startAt when the loop reaches the i-th item of sorted (i from 0)
RECURSIVE StartAt(_, _, _, _)
StartAt(sizes, sorted, i, lowest) ==
  IF i = 0 THEN lowest
  ELSE Plus(StartAt(sizes, sorted, i - 1, lowest), sizes[sorted[i]])

\* The loop that both functions end with: the i-th item of sorted gets
\* startAt + gap * i along the axis
Spread(list, sizes, index, total, highest) ==
  LET count == Len(list)
      sorted == SortedByPos(list, count, index)
      lowest == list[sorted[1]].pos[index]
      gap == Divide(Minus(Minus(highest, lowest), total), count - 1)
      rank(k) == CHOOSE i \in 1..count : sorted[i] = k
  IN [k \in 1..count |->
        [list[k] EXCEPT !.pos[index] =
           Plus(StartAt(sizes, sorted, rank(k) - 1, lowest),
                Times(gap, Number(rank(k) - 1)))]]

\* distributeNodes(nodes, horizontal)
DistributeNodesOf(nodes, horizontal) ==
  LET index == IF horizontal THEN 1 ELSE 2
      nodeCount == Len(nodes)
      sizes == [k \in 1..nodeCount |-> nodes[k].size[index]]
  IN IF ~(nodeCount > 1) THEN nodes
     ELSE Spread(nodes, sizes, index, Total(sizes, nodeCount),
                 Highest(nodes, sizes, nodeCount, index))

\* distributeItems(items, horizontal)
DistributeItemsOf(list, horizontal) ==
  LET posIndex == IF horizontal THEN 2 ELSE 1
      count == Len(list)
      sizes == [k \in 1..count |-> list[k].boundingRect[posIndex + 2]]
      total == Total(sizes, count)
  IN IF IsFalsy(total) THEN list
     ELSE Spread(list, sizes, posIndex, total,
                 Highest(list, sizes, count, posIndex))

\* The positions and sizes items are given.
Coordinates == {0, 3}
Extents == {0, 2}

ItemAt(x, y, w, h) ==
  [pos |-> <<Number(x), Number(y)>>, size |-> <<Number(w), Number(h)>>,
   boundingRect |-> <<Number(x), Number(y), Number(w), Number(h)>>]

GivenItems ==
  {ItemAt(x, y, w, h) : x \in Coordinates, y \in Coordinates, w \in Extents, h \in Extents}

GraphUntouched ==
  UNCHANGED <<links, reroutes, floatingLinks, lastFloatingLinkId, walk, widgets, globalColorInput, activeGradientWidget, activeStopIndex, currentOptions, animationFrameId, pendingUpdate, scheduled>>

\* An empty graph, no widget, and the items the caller selected.
InitDistribute ==
  \E n \in 0..MaxItems : \E list \in [1..n -> GivenItems] :
    /\ links = << >>
    /\ reroutes = << >>
    /\ floatingLinks = << >>
    /\ lastFloatingLinkId = 0
    /\ last = [op |-> "select", calls |-> 0]
    /\ walk = [pc |-> "idle"]
    /\ widgets = << >>
    /\ globalColorInput = Null
    /\ activeGradientWidget = Null
    /\ activeStopIndex = -1
    /\ currentOptions = Null
    /\ animationFrameId = Null
    /\ pendingUpdate = FALSE
    /\ scheduled = [frame |-> FALSE, hide |-> 0]
    /\ items = list

\* distributeNodes(items, horizontal)
DistributeNodes ==
  \E horizontal \in BOOLEAN :
    /\ last.op = "select"
    /\ items' = DistributeNodesOf(items, horizontal)
    /\ last' = [op |-> "distributeNodes", calls |-> 1,
                horizontal |-> horizontal, before |-> items]
    /\ GraphUntouched

\* distributeItems(items, horizontal)
DistributeItems ==
  \E horizontal \in BOOLEAN :
    /\ last.op = "select"
    /\ items' = DistributeItemsOf(items, horizontal)
    /\ last' = [op |-> "distributeItems", calls |-> 1,
                horizontal |-> horizontal, before |-> items]
    /\ GraphUntouched

NextDistribute == DistributeNodes \/ DistributeItems

SpecDistribute == InitDistribute /\ [][NextDistribute]_vars

\* C30: distributeItems changes no position when it is given fewer than
\* two items, as distributeNodes does for fewer than two nodes; a single
\* item with a size keeps the position it had.
C30_FewItemsUnmoved ==
  (last.op \in {"distributeItems", "distributeNodes"} /\ Len(last.before) < 2)
    => items = last.before

====
